---- MODULE Spec2Model ----
(***************************************************************************)
(* A model of the PST and CFB (.msg) readers of PANhunt                    *)
(* (src/src/formats/pst.py, src/src/formats/msmsg.py).                     *)
(*                                                                         *)
(* Each component of the readers is one variable holding a record whose    *)
(* fields are the fields and locals of the code it models.  Each component *)
(* has a specification of its own (SpecBTH, SpecFAT, ...): its Init draws  *)
(* the decoded input from bounded sets, the other components stay idle.    *)
(***************************************************************************)
EXTENDS Integers, Sequences, FiniteSets, TLC

VARIABLES bth, fat, sub, leaf, pst, pc, fgen, mgen, msg, dir, blk, tc, att, life, perm, pstream, dec

vars == <<bth, fat, sub, leaf, pst, pc, fgen, mgen, msg, dir, blk, tc, att, life, perm, pstream, dec>>

Idle == [pc |-> "idle"]

-----------------------------------------------------------------------------
(* Python helpers *)

\* s[a:b] of Python for 0 <= a, clipped to the length of s
Slice(s, a, b) == SubSeq(s, a + 1, IF b < Len(s) THEN b ELSE Len(s))

Min(a, b) == IF a < b THEN a ELSE b

Range(s) == {s[i] : i \in 1..Len(s)}

RECURSIVE Concat(_)
Concat(ss) == IF ss = <<>> THEN <<>> ELSE Head(ss) \o Concat(Tail(ss))

RECURSIVE Reverse(_)
Reverse(s) == IF s = <<>> THEN <<>> ELSE Reverse(Tail(s)) \o <<Head(s)>>

\* struct.unpack of an unsigned little-endian integer
RECURSIVE unpack_integer(_)
unpack_integer(bytes) ==
    IF bytes = <<>> THEN 0 ELSE Head(bytes) + 256 * unpack_integer(Tail(bytes))

\* struct.pack of an unsigned little-endian integer on n bytes
RECURSIVE pack_integer(_, _)
pack_integer(v, n) ==
    IF n = 0 THEN <<>> ELSE <<v % 256>> \o pack_integer(v \div 256, n - 1)

-----------------------------------------------------------------------------
(* BTH: the B-tree-on-heap, pst.py BTH.__init__ and BTH.get_bth_records *)

MaxLevels == 2
MaxFan == 2
MaxLeafRecs == 2
MaxLeafKinds == 3
MaxCbKey == 2
MaxCbEnt == 2
MaxStack == 4

\* class HID: hidType is the low 5 bits of the first word, hidIndex the next 11
HID(payload) ==
    [hidIndex      |-> (unpack_integer(Slice(payload, 0, 2)) \div 32) % 2048,
     hidType       |-> unpack_integer(Slice(payload, 0, 2)) % 32,
     hidBlockIndex |-> unpack_integer(Slice(payload, 2, 4))]

\* The four bytes of the HID of allocation i of heap page 0
HIDBytes(i) == pack_integer(i * 32, 2) \o pack_integer(0, 2)

\* HN.get_hid_data on a heap of one page: allocation hidIndex of the page
get_hid_data(heap, hid) == heap[hid.hidIndex]

\* BTH.get_bth_records
get_bth_records(payload, bIdxLevel, cbKey, cbEnt) ==
    IF bIdxLevel = 0
    THEN LET record_size == cbKey + cbEnt
             records == Len(payload) \div record_size
         IN [i \in 1..records |->
                [kind |-> "BTHData",
                 key  |-> Slice(payload, (i - 1) * record_size, (i - 1) * record_size + cbKey),
                 data |-> Slice(payload, (i - 1) * record_size + cbKey, i * record_size)]]
    ELSE LET record_size == cbKey + 4
             records == Len(payload) \div record_size
         IN [i \in 1..records |->
                [kind |-> "BTHIntermediate",
                 key  |-> Slice(payload, (i - 1) * record_size, (i - 1) * record_size + cbKey),
                 hidNextLevel |-> HID(Slice(payload, (i - 1) * record_size + cbKey, i * record_size)),
                 bIdxLevel |-> bIdxLevel]]

\* [x for x in records if isinstance(x, kind)]
OfKind(records, kind) == SelectSeq(records, LAMBDA r : r.kind = kind)

(* The heaps the model decodes: a complete tree of bIdxLevels index levels  *)
(* in which every intermediate node has fan records; the node at position p *)
(* (0-based) of level d (the root is level 0) is allocation                 *)
(* NodeHid(d, p), and leaf p holds recs[p % MaxLeafKinds + 1] records.      *)
RECURSIVE Pow(_, _)
Pow(b, e) == IF e = 0 THEN 1 ELSE b * Pow(b, e - 1)

RECURSIVE NodesAbove(_, _)
NodesAbove(fan, d) == IF d = 0 THEN 0 ELSE Pow(fan, d - 1) + NodesAbove(fan, d - 1)

NodeHid(fan, d, p) == NodesAbove(fan, d) + p + 1

LeafCount(recs, p) == recs[(p % MaxLeafKinds) + 1]

\* the keys of the leaf records are 1, 2, ... from the leftmost leaf on
RECURSIVE FirstKey(_, _)
FirstKey(recs, p) == IF p = 0 THEN 1 ELSE FirstKey(recs, p - 1) + LeafCount(recs, p - 1)

LeafRecord(k, cbKey, cbEnt) ==
    [kind |-> "BTHData", key |-> pack_integer(k, cbKey), data |-> pack_integer(100 + k, cbEnt)]

LeafPayload(recs, p, cbKey, cbEnt) ==
    Concat([j \in 1..LeafCount(recs, p) |->
              pack_integer(FirstKey(recs, p) + j - 1, cbKey)
                 \o pack_integer(100 + FirstKey(recs, p) + j - 1, cbEnt)])

InterPayload(fan, d, p, cbKey) ==
    Concat([j \in 1..fan |->
              pack_integer(j, cbKey) \o HIDBytes(NodeHid(fan, d + 1, p * fan + j - 1))])

BTHHeap(levels, fan, recs, cbKey, cbEnt) ==
    LET n == NodesAbove(fan, levels + 1)
        depth(h) == CHOOSE d \in 0..levels :
                       NodesAbove(fan, d) < h /\ h <= NodesAbove(fan, d + 1)
        pos(h) == h - NodesAbove(fan, depth(h)) - 1
    IN [h \in 1..n |->
          IF depth(h) = levels
          THEN LeafPayload(recs, pos(h), cbKey, cbEnt)
          ELSE InterPayload(fan, depth(h), pos(h), cbKey)]

\* the leaf records reachable from the root, leftmost leaf first
BTHLeafRecords(levels, fan, recs, cbKey, cbEnt) ==
    LET total == FirstKey(recs, Pow(fan, levels)) - 1
    IN [k \in 1..total |-> LeafRecord(k, cbKey, cbEnt)]

InitBTHComp ==
    \E levels \in 0..MaxLevels, fan \in 1..MaxFan,
       recs \in [1..MaxLeafKinds -> 0..MaxLeafRecs],
       cbKey \in 1..MaxCbKey, cbEnt \in 1..MaxCbEnt,
       emptyRoot \in BOOLEAN :
        bth = [pc |-> "header",
               cbKey |-> cbKey, cbEnt |-> cbEnt, bIdxLevels |-> levels,
               hidRoot |-> HID(IF emptyRoot THEN HIDBytes(0) ELSE HIDBytes(1)),
               heap |-> BTHHeap(levels, fan, recs, cbKey, cbEnt),
               leaves |-> IF emptyRoot THEN <<>>
                          ELSE BTHLeafRecords(levels, fan, recs, cbKey, cbEnt),
               bth_data_list |-> <<>>,
               bth_working_stack |-> <<>>,
               bth_record_list |-> <<>>,
               local_data_list |-> <<>>,
               local_intermediate_list |-> <<>>,
               bIdxLevel |-> 0,
               pops |-> 0]

\* BTH.__init__ up to the while loop (pst.py 742-771)
BTHInit ==
    /\ bth.pc = "header"
    /\ IF bth.hidRoot.hidIndex # 0
       THEN LET payload == get_hid_data(bth.heap, bth.hidRoot)
                records == get_bth_records(payload, bth.bIdxLevels, bth.cbKey, bth.cbEnt)
                datas == OfKind(records, "BTHData")
                inters == OfKind(records, "BTHIntermediate")
            IN bth' = [bth EXCEPT
                  !.bth_record_list = records,
                  !.local_data_list = datas,
                  !.local_intermediate_list = inters,
                  !.bth_data_list = IF bth.bIdxLevels = 0 THEN datas ELSE <<>>,
                  !.bth_working_stack = IF bth.bIdxLevels = 0 THEN <<>> ELSE inters,
                  !.pc = IF bth.bIdxLevels = 0 \/ inters = <<>> THEN "done" ELSE "loop"]
       ELSE bth' = [bth EXCEPT !.pc = "done"]
    /\ UNCHANGED <<fat, sub, leaf, pst, pc, fgen, mgen, msg, dir, blk, tc, att, life, perm, pstream, dec>>

\* the data list a leaf visit appends: the code appends the list it split
\* from the root's records, not the records it has just read
BTHLeafExtend(b, records) == b.local_data_list

\* the intermediates a non-leaf visit pushes: bth_intermediate_list, which is
\* the list object bth_working_stack itself (pst.py 771), as the pop left it
BTHInterExtend(rest, records) == rest

\* the first half of an iteration of the while loop (pst.py 772-776): the
\* pop, and the records of the node the popped record points to
BTHPop ==
    /\ bth.pc = "loop"
    /\ LET n == Len(bth.bth_working_stack)
           bth_intermediate == bth.bth_working_stack[n]
           rest == SubSeq(bth.bth_working_stack, 1, n - 1)
           payload == get_hid_data(bth.heap, bth_intermediate.hidNextLevel)
           records == get_bth_records(payload, bth_intermediate.bIdxLevel - 1,
                                      bth.cbKey, bth.cbEnt)
       IN bth' = [bth EXCEPT
                !.bth_record_list = records,
                !.bth_working_stack = rest,
                !.local_intermediate_list = rest,
                !.bIdxLevel = bth_intermediate.bIdxLevel,
                !.pops = Min(@ + 1, MaxStack),
                !.pc = "extend"]
    /\ UNCHANGED <<fat, sub, leaf, pst, pc, fgen, mgen, msg, dir, blk, tc, att, life, perm, pstream, dec>>

\* the second half (pst.py 777-781): one of the two extends, and the test of
\* the while statement
BTHExtend ==
    /\ bth.pc = "extend"
    /\ LET rest == bth.bth_working_stack
           stack == IF bth.bIdxLevel - 1 = 0
                    THEN rest ELSE rest \o BTHInterExtend(rest, bth.bth_record_list)
       IN /\ Len(stack) <= MaxStack
          /\ bth' = [bth EXCEPT
                !.bth_data_list = IF bth.bIdxLevel - 1 = 0
                                  THEN @ \o BTHLeafExtend(bth, bth.bth_record_list) ELSE @,
                !.bth_working_stack = stack,
                !.local_intermediate_list = stack,
                !.pc = IF stack = <<>> THEN "done" ELSE "loop"]
    /\ UNCHANGED <<fat, sub, leaf, pst, pc, fgen, mgen, msg, dir, blk, tc, att, life, perm, pstream, dec>>

InitBTH ==
    /\ InitBTHComp
    /\ fat = Idle /\ sub = Idle /\ leaf = Idle /\ pst = Idle
    /\ pc = Idle /\ fgen = Idle /\ mgen = Idle
    /\ msg = Idle /\ dir = Idle /\ blk = Idle /\ tc = Idle /\ att = Idle /\ life = Idle /\ perm = Idle
    /\ pstream = Idle
    /\ dec = Idle

NextBTH == BTHInit \/ BTHPop \/ BTHExtend

SpecBTH == InitBTH /\ [][NextBTH]_vars

\* C1: when BTH construction ends, bth_data_list holds exactly the leaf
\* records reachable from hidRoot, each once (no record lost, none
\* duplicated), for every number of index levels.
C1_BTHCollectsLeaves ==
    bth.pc = "done" =>
        /\ Len(bth.bth_data_list) = Len(bth.leaves)
        /\ Range(bth.bth_data_list) = Range(bth.leaves)

\* the loop of BTH.__init__ is sequential code: it takes its next step
\* whenever it has one
SpecBTHLive == SpecBTH /\ WF_vars(NextBTH)

\* C20: the construction of a BTH over a finite tree of heap nodes, in which
\* every intermediate record points one level down, terminates for every
\* number of index levels, two and more included: after finitely many pops
\* the working stack is empty and the construction is done.
C20_BTHTerminates == <>(bth.pc = "done")

-----------------------------------------------------------------------------
(* FAT.get_stream and MiniFAT.get_stream, msmsg.py *)

NSectors == 3
MaxChain == 4

\* 0xFFFFFFFE and 0xFFFFFFFF, written as the 32-bit two's complement values
\* (TLC's integers are 32-bit signed); no sector number 0..NSectors-1 is one
ENDOFCHAIN == -2
FREESECT == -1
FATSectorSize == 512
MiniSECTORSIZE == 64

\* the sector size get_stream compares with: mscfb.SectorSize (major
\* version 3) for the FAT, MiniFAT.SECTORSIZE for the MiniFAT
SectorSizeOf(kind) == IF kind = "FAT" THEN FATSectorSize ELSE MiniSECTORSIZE

\* the condition of the raise in get_stream; length is len(stream_bytes)
StreamSizeMismatch(size, length, sectorSize) ==
    size > length \/ size < length - sectorSize

(* A call get_stream(sector, size) on a table of NSectors entries.  The    *)
(* file (the mini stream) holds the sectors below 'present': all of them,  *)
(* or the first one only; the read of a sector past its end gives b''.     *)
(* stream_sectors lists the sectors whose bytes were appended, so          *)
(* len(stream_bytes) = Len(stream_sectors) * sector size.                  *)
InitFATComp ==
    \E kind \in {"FAT", "MiniFAT"},
       entries \in [0..(NSectors - 1) -> (0..(NSectors - 1)) \cup {ENDOFCHAIN, FREESECT}],
       start \in (0..(NSectors - 1)) \cup {ENDOFCHAIN},
       k \in 0..MaxChain, d \in {0, 1}, present \in {1, NSectors} :
        fat = [pc |-> "loop", kind |-> kind, entries |-> entries, present |-> present,
               start |-> start, size |-> k * SectorSizeOf(kind) + d,
               sector |-> start, stream_sectors |-> <<>>,
               result_len |-> -1, err |-> "none"]

FATStreamLen(f) == Len(f.stream_sectors) * SectorSizeOf(f.kind)

\* the loop test and the read of the sector's bytes (msmsg.py 64-65, 107-109)
FATGetStreamStep ==
    /\ fat.pc = "loop"
    /\ fat.sector # ENDOFCHAIN
    /\ Len(fat.stream_sectors) < MaxChain
    /\ fat' = [fat EXCEPT !.pc = "next",
                          !.stream_sectors = IF fat.sector \in 0..(fat.present - 1)
                                              THEN Append(@, fat.sector) ELSE @]
    /\ UNCHANGED <<bth, sub, leaf, pst, pc, fgen, mgen, msg, dir, blk, tc, att, life, perm, pstream, dec>>

\* sector = self.entries[sector] (msmsg.py 66, 110)
FATGetStreamNext ==
    /\ fat.pc = "next"
    /\ IF fat.sector \in DOMAIN fat.entries
       THEN fat' = [fat EXCEPT !.pc = "loop", !.sector = fat.entries[fat.sector]]
       ELSE fat' = [fat EXCEPT !.pc = "raised", !.err = "IndexError"]
    /\ UNCHANGED <<bth, sub, leaf, pst, pc, fgen, mgen, msg, dir, blk, tc, att, life, perm, pstream, dec>>

\* the end of the chain: the size check and the return (msmsg.py 67-70, 111-114)
FATGetStreamEnd ==
    /\ fat.pc = "loop"
    /\ fat.sector = ENDOFCHAIN
    /\ IF StreamSizeMismatch(fat.size, FATStreamLen(fat), SectorSizeOf(fat.kind))
       THEN fat' = [fat EXCEPT !.pc = "raised", !.err = "PANHuntException"]
       ELSE fat' = [fat EXCEPT !.pc = "returned",
                               !.result_len = Min(fat.size, FATStreamLen(fat))]
    /\ UNCHANGED <<bth, sub, leaf, pst, pc, fgen, mgen, msg, dir, blk, tc, att, life, perm, pstream, dec>>

InitFAT ==
    /\ InitFATComp
    /\ bth = Idle /\ sub = Idle /\ leaf = Idle /\ pst = Idle
    /\ pc = Idle /\ fgen = Idle /\ mgen = Idle
    /\ msg = Idle /\ dir = Idle /\ blk = Idle /\ tc = Idle /\ att = Idle /\ life = Idle /\ perm = Idle
    /\ pstream = Idle
    /\ dec = Idle

NextFAT == FATGetStreamStep \/ FATGetStreamNext \/ FATGetStreamEnd

SpecFAT == InitFAT /\ [][NextFAT]_vars

\* C2: get_stream accepts a chain that reached ENDOFCHAIN only when the
\* accumulated byte count lies in [size, size + SectorSize); a chain that
\* carries one whole sector more than needed is rejected.
C2_AcceptsHalfOpenRange ==
    fat.pc = "returned" =>
        /\ fat.size <= FATStreamLen(fat)
        /\ FATStreamLen(fat) < fat.size + SectorSizeOf(fat.kind)

-----------------------------------------------------------------------------
(* Python dict as a function; the empty dict is the empty function *)

EmptyDict == [x \in {} |-> 0]

DictSet(d, k, v) == [x \in DOMAIN d \cup {k} |-> IF x = k THEN v ELSE d[x]]

\* d.update(e): the entries of e replace those of d with the same key
DictUpdate(d, e) == [x \in DOMAIN d \cup DOMAIN e |-> IF x \in DOMAIN e THEN e[x] ELSE d[x]]

Raised(kind) == [err |-> kind, value |-> EmptyDict]

Returned(v) == [err |-> "none", value |-> v]

-----------------------------------------------------------------------------
(* NBD.fetch_subnodes, pst.py 559-579 *)

NNids == 2
MaxSLEntries == 2
MaxSIEntries == 2

btypeData == 0
btypeXBLOCK == 1
btypeXXBLOCK == 2
btypeSLBLOCK == 3
btypeSIBLOCK == 4

\* the BIDs of the model's blocks: internal blocks have bit 1 set
BidSI == 6
BidSLA == 10
BidSLB == 14
BidData == 4
BidMissing == 20

\* NBD.fetch_block: the BBT lookup; a BID the BBT does not hold is the domain error
fetch_block(blocks, bid) ==
    IF bid \in DOMAIN blocks THEN Returned(blocks[bid]) ELSE Raised("PANHuntException")

\* the loop over an SLBLOCK's entries (pst.py 565-571), from entry i on
RECURSIVE SLBlockEntries(_, _, _)
SLBlockEntries(rgentries, i, subnodes) ==
    IF i > Len(rgentries) THEN Returned(subnodes)
    ELSE IF rgentries[i].nid \in DOMAIN subnodes
         THEN Raised("PANHuntException")
         ELSE SLBlockEntries(rgentries, i + 1, DictSet(subnodes, rgentries[i].nid, rgentries[i]))

\* a join that keeps the map of the SLBLOCK read last only
SIMergeReplace(subnodes, child) == Returned(child)

\* how the map of one SLBLOCK below an SIBLOCK joins the map built so far
\* (pst.py 575): dict.update, without a look at the keys already there
SIMerge(subnodes, child) == Returned(DictUpdate(subnodes, child))

RECURSIVE fetch_subnodes(_, _)
RECURSIVE SIBlockEntries(_, _, _, _)

\* the loop over an SIBLOCK's entries (pst.py 573-575), from entry i on
SIBlockEntries(blocks, rgentries, i, subnodes) ==
    IF i > Len(rgentries) THEN Returned(subnodes)
    ELSE LET child == fetch_subnodes(blocks, rgentries[i].bid)
         IN IF child.err # "none" THEN child
            ELSE LET merged == SIMerge(subnodes, child.value)
                 IN IF merged.err # "none" THEN merged
                    ELSE SIBlockEntries(blocks, rgentries, i + 1, merged.value)

fetch_subnodes(blocks, bid) ==
    LET fetched == fetch_block(blocks, bid)
        block == fetched.value
    IN IF fetched.err # "none" THEN fetched
       ELSE IF block.block_type = btypeSLBLOCK
            THEN SLBlockEntries(block.rgentries, 1, EmptyDict)
       ELSE IF block.block_type = btypeSIBLOCK
            THEN SIBlockEntries(blocks, block.rgentries, 1, EmptyDict)
       ELSE Raised("PANHuntException")

SeqsUpTo(S, n) == UNION {[1..m -> S] : m \in 0..n}

\* an SLBLOCK whose i-th entry has sub-node NID nids[i]; bidData tells the
\* entries of the model apart
SLBlock(bid, nids) ==
    [block_type |-> btypeSLBLOCK,
     rgentries |-> [i \in 1..Len(nids) |->
                      [kind |-> "SLENTRY", nid |-> nids[i], bidData |-> 8 * (bid + i)]]]

SIBlock(bids) ==
    [block_type |-> btypeSIBLOCK,
     rgentries |-> [i \in 1..Len(bids) |-> [kind |-> "SIENTRY", bid |-> bids[i]]]]

DataBlock == [block_type |-> btypeData, rgentries |-> <<>>]

(* The block layouts of the model: an SIBLOCK over two SLBLOCKs and a data *)
(* block; the SIBLOCK's entries name SLBLOCKs, the data block or a BID the  *)
(* BBT does not hold.  No SIBLOCK names an SIBLOCK.                         *)
InitSubComp ==
    \E nidsA \in SeqsUpTo(1..NNids, MaxSLEntries),
       nidsB \in SeqsUpTo(1..NNids, MaxSLEntries),
       bids \in SeqsUpTo({BidSLA, BidSLB, BidData, BidMissing}, MaxSIEntries),
       bid \in {BidSI, BidSLA, BidSLB, BidData, BidMissing} :
        sub = [pc |-> "call", bid |-> bid,
               blocks |-> (BidSI :> SIBlock(bids)) @@ (BidSLA :> SLBlock(BidSLA, nidsA))
                           @@ (BidSLB :> SLBlock(BidSLB, nidsB)) @@ (BidData :> DataBlock),
               subnodes |-> EmptyDict, err |-> "none"]

\* a call of NBD.fetch_subnodes(bid)
FetchSubnodes ==
    /\ sub.pc = "call"
    /\ LET r == fetch_subnodes(sub.blocks, sub.bid)
       IN sub' = [sub EXCEPT !.pc = IF r.err = "none" THEN "returned" ELSE "raised",
                             !.subnodes = r.value, !.err = r.err]
    /\ UNCHANGED <<bth, fat, leaf, pst, pc, fgen, mgen, msg, dir, blk, tc, att, life, perm, pstream, dec>>

InitSub ==
    /\ InitSubComp
    /\ bth = Idle /\ fat = Idle /\ leaf = Idle /\ pst = Idle
    /\ pc = Idle /\ fgen = Idle /\ mgen = Idle
    /\ msg = Idle /\ dir = Idle /\ blk = Idle /\ tc = Idle /\ att = Idle /\ life = Idle /\ perm = Idle
    /\ pstream = Idle
    /\ dec = Idle

NextSub == FetchSubnodes

SpecSub == InitSub /\ [][NextSub]_vars

\* the SLBLOCKs read by fetch_subnodes(bid): bid itself, or those an SIBLOCK names
SubReachableSL(blocks, bid) ==
    IF bid \notin DOMAIN blocks THEN {}
    ELSE IF blocks[bid].block_type = btypeSLBLOCK THEN {bid}
    ELSE IF blocks[bid].block_type = btypeSIBLOCK
         THEN {b \in {blocks[bid].rgentries[i].bid : i \in 1..Len(blocks[bid].rgentries)} :
                  b \in DOMAIN blocks /\ blocks[b].block_type = btypeSLBLOCK}
    ELSE {}

\* the entries (block, position) of the SLBLOCKs read
SubReachableEntries(blocks, bid) ==
    {<<b, i>> : b \in SubReachableSL(blocks, bid), i \in 1..MaxSLEntries + 1} \cap
    UNION {{<<b, i>> : i \in 1..Len(blocks[b].rgentries)} : b \in SubReachableSL(blocks, bid)}

SubDuplicateNid(blocks, bid) ==
    \E e1, e2 \in SubReachableEntries(blocks, bid) :
        /\ e1 # e2
        /\ blocks[e1[1]].rgentries[e1[2]].nid = blocks[e2[1]].rgentries[e2[2]].nid

\* C5: fetch_subnodes raises the domain error whenever a sub-node NID occurs
\* in two SLBLOCK entries reachable from bid, in one SLBLOCK or in two; a
\* returned map never comes from one entry replacing another.
C5_DuplicateSubnodeFatal ==
    sub.pc = "returned" => ~SubDuplicateNid(sub.blocks, sub.bid)

-----------------------------------------------------------------------------
(* NBD.get_page_leaf_entries, pst.py 581-601 *)

MaxLeafEntries == 2
MaxBTEntries == 2

ptypeBBT == 128
ptypeNBT == 129

\* the file offsets of the model's pages
IbRoot == 512
IbLeafA == 1024
IbLeafB == 1536

\* class BID: bit 0 of the value read is cleared
BID(raw) == [bid |-> IF raw % 2 = 1 THEN raw - 1 ELSE raw,
             is_internal |-> ((raw \div 2) % 2 = 1)]

\* class Page: the entries of a leaf page (cLevel = 0) are NBTENTRYs or
\* BBTENTRYs after ptype, those of a page with cLevel > 0 are BTENTRYs
NBTENTRY(raw, tag) == [kind |-> "NBTENTRY", nid |-> raw, tag |-> tag]

BBTENTRY(raw, tag) == [kind |-> "BBTENTRY", BREF |-> [bid |-> BID(raw), ib |-> tag]]

BTENTRY(ib) == [kind |-> "BTENTRY", BREF |-> [ib |-> ib]]

LeafPage(ptype, ib, raws) ==
    [ptype |-> ptype, cLevel |-> 0,
     rgEntries |-> [i \in 1..Len(raws) |->
                      IF ptype = ptypeNBT THEN NBTENTRY(raws[i], ib + i)
                      ELSE BBTENTRY(raws[i], ib + i)]]

BTPage(ptype, ibs) ==
    [ptype |-> ptype, cLevel |-> 1,
     rgEntries |-> [i \in 1..Len(ibs) |-> BTENTRY(ibs[i])]]

\* the key under which get_page_leaf_entries stores a leaf entry
LeafKey(entry) == IF entry.kind = "NBTENTRY" THEN entry.nid ELSE entry.BREF.bid.bid

\* how the leaves below one BTENTRY join the map built so far (pst.py 597-598):
\* dict.update, without a look at the keys already there
BTMerge(leaf_entries, child) == Returned(DictUpdate(leaf_entries, child))

RECURSIVE get_page_leaf_entries(_, _)
RECURSIVE PageEntries(_, _, _, _)

\* the loop over page.rgEntries (pst.py 586-600), from entry i on
PageEntries(pages, rgEntries, i, leaf_entries) ==
    IF i > Len(rgEntries) THEN Returned(leaf_entries)
    ELSE LET entry == rgEntries[i]
         IN IF entry.kind \in {"NBTENTRY", "BBTENTRY"}
            THEN IF LeafKey(entry) \in DOMAIN leaf_entries
                 THEN Raised("PANHuntException")
                 ELSE PageEntries(pages, rgEntries, i + 1,
                                  DictSet(leaf_entries, LeafKey(entry), entry))
            ELSE IF entry.kind = "BTENTRY"
            THEN LET child == get_page_leaf_entries(pages, entry.BREF.ib)
                 IN IF child.err # "none" THEN child
                    ELSE LET merged == BTMerge(leaf_entries, child.value)
                         IN IF merged.err # "none" THEN merged
                            ELSE PageEntries(pages, rgEntries, i + 1, merged.value)
            ELSE Raised("PANHuntException")

\* NBD.fetch_page reads 512 bytes at the offset; past the end of the file the
\* read is short and Page raises 'Invalid Page size'
get_page_leaf_entries(pages, page_offset) ==
    IF page_offset \notin DOMAIN pages THEN Raised("PANHuntException")
    ELSE PageEntries(pages, pages[page_offset].rgEntries, 1, EmptyDict)

(* The B-trees of the model: the root page is a leaf page or holds         *)
(* BTENTRYs to the two leaf pages; raw keys are drawn from 4, 5 and 8, so   *)
(* that two BIDs may differ in bit 0 only.                                  *)
InitLeafComp ==
    \E ptype \in {ptypeNBT, ptypeBBT},
       rawsA \in SeqsUpTo({4, 5, 8}, MaxLeafEntries),
       rawsB \in SeqsUpTo({4, 5, 8}, MaxLeafEntries),
       ibs \in SeqsUpTo({IbLeafA, IbLeafB}, MaxBTEntries),
       rootIsLeaf \in BOOLEAN :
        leaf = [pc |-> "call", ptype |-> ptype, page_offset |-> IbRoot,
                pages |-> (IbRoot :> IF rootIsLeaf THEN LeafPage(ptype, IbRoot, rawsA)
                                     ELSE BTPage(ptype, ibs))
                          @@ (IbLeafA :> LeafPage(ptype, IbLeafA, rawsA))
                          @@ (IbLeafB :> LeafPage(ptype, IbLeafB, rawsB)),
                leaf_entries |-> EmptyDict, err |-> "none"]

\* NBD.__init__: the leaf map of one B-tree from its root page
GetPageLeafEntries ==
    /\ leaf.pc = "call"
    /\ LET r == get_page_leaf_entries(leaf.pages, leaf.page_offset)
       IN leaf' = [leaf EXCEPT !.pc = IF r.err = "none" THEN "returned" ELSE "raised",
                               !.leaf_entries = r.value, !.err = r.err]
    /\ UNCHANGED <<bth, fat, sub, pst, pc, fgen, mgen, msg, dir, blk, tc, att, life, perm, pstream, dec>>

InitLeaf ==
    /\ InitLeafComp
    /\ bth = Idle /\ fat = Idle /\ sub = Idle /\ pst = Idle
    /\ pc = Idle /\ fgen = Idle /\ mgen = Idle
    /\ msg = Idle /\ dir = Idle /\ blk = Idle /\ tc = Idle /\ att = Idle /\ life = Idle /\ perm = Idle
    /\ pstream = Idle
    /\ dec = Idle

NextLeaf == GetPageLeafEntries

SpecLeaf == InitLeaf /\ [][NextLeaf]_vars

\* the leaf pages read from the root: the root itself, or those its BTENTRYs name
LeafPagesRead(pages, root) ==
    IF pages[root].cLevel = 0 THEN {root}
    ELSE {pages[root].rgEntries[i].BREF.ib : i \in 1..Len(pages[root].rgEntries)}

LeafEntriesRead(pages, root) ==
    UNION {{<<p, i>> : i \in 1..Len(pages[p].rgEntries)} : p \in LeafPagesRead(pages, root)}

LeafDuplicateKey(pages, root) ==
    \E e1, e2 \in LeafEntriesRead(pages, root) :
        /\ e1 # e2
        /\ LeafKey(pages[e1[1]].rgEntries[e1[2]]) = LeafKey(pages[e2[1]].rgEntries[e2[2]])

\* C6: building a leaf map raises the domain error whenever two leaf entries
\* of the B-tree carry the same key, on one leaf page or on two; a returned
\* map never comes from one leaf entry overwriting another.
C6_DuplicateLeafKeyFatal ==
    leaf.pc = "returned" => ~LeafDuplicateKey(leaf.pages, leaf.page_offset)

-----------------------------------------------------------------------------
(* PST.__init__ and Header.__init__, pst.py 2356-2476 *)

\* the header fields of the model's files
Magics == {"!BDN", "!BDX"}
ClientMagics == {"SM", "SX"}
Versions == {13, 14, 15, 16, 23, 24}
CryptBytes == {0, 1, 2, 255}

\* class CryptMethodEnum(Enum): the value lookup of a plain Enum raises
\* ValueError for a value no member has
CryptMethodEnum(value) ==
    IF value = -1 THEN Returned("Unsupported")
    ELSE IF value = 0 THEN Returned("Unencoded")
    ELSE IF value = 1 THEN Returned("NDB_CRYPT_PERMUTE")
    ELSE Raised("ValueError")

\* is_ansi or is_unicode (pst.py 2382-2384)
VersionSupported(wVer) == wVer \in {14, 15} \/ wVer = 23

\* the validity test without the version test
HeaderValidNoVersion(p) == p.dwMagic = "!BDN" /\ p.wMagicClient = "SM"

\* validPST as Header.__init__ leaves it when the fixed fields could be read
HeaderValid(p) ==
    /\ p.dwMagic = "!BDN" /\ p.wMagicClient = "SM"
    /\ VersionSupported(p.wVer)

(* A file is locked by another process or not; it is shorter than the 16   *)
(* bytes of version fields (truncated) or holds the whole header.           *)
InitPSTComp ==
    \E dwMagic \in Magics, wMagicClient \in ClientMagics, wVer \in Versions,
       cryptMethod \in CryptBytes, truncated \in BOOLEAN, locked \in BOOLEAN,
       pages_ok \in BOOLEAN :
        pst = [pc |-> "open", dwMagic |-> dwMagic, wMagicClient |-> wMagicClient,
               wVer |-> wVer, cryptMethod |-> cryptMethod,
               truncated |-> truncated, locked |-> locked, pages_ok |-> pages_ok,
               fd |-> "none", validPST |-> "unset", bCryptMethod |-> "unset",
               nbd |-> "none", messaging |-> "none",
               reads |-> <<>>, err |-> "none", msg |-> "none"]

\* open(pst_file, 'rb') and the lock probe (pst.py 2454-2463)
PSTOpenFile ==
    /\ pst.pc = "open"
    /\ IF pst.locked
       THEN pst' = [pst EXCEPT !.fd = "closed", !.pc = "raised",
                               !.err = "PANHuntException", !.msg = "in use"]
       ELSE pst' = [pst EXCEPT !.fd = "open", !.pc = "header"]
    /\ UNCHANGED <<bth, fat, sub, leaf, pc, fgen, mgen, msg, dir, blk, tc, att, life, perm, pstream, dec>>

\* Header(self.fd) (pst.py 2356-2428)
HeaderInit ==
    /\ pst.pc = "header"
    /\ LET crypt == CryptMethodEnum(pst.cryptMethod)
       IN IF pst.truncated
          THEN pst' = [pst EXCEPT !.reads = Append(@, "header"),
                                  !.validPST = FALSE, !.pc = "check"]
          ELSE IF ~HeaderValid(pst)
          THEN pst' = [pst EXCEPT !.reads = Append(@, "header"),
                                  !.validPST = FALSE, !.pc = "check"]
          ELSE IF crypt.err # "none"
          THEN pst' = [pst EXCEPT !.reads = Append(@, "header"), !.validPST = TRUE,
                                  !.pc = "raised", !.err = crypt.err,
                                  !.msg = "not a valid CryptMethodEnum"]
          ELSE pst' = [pst EXCEPT !.reads = Append(@, "header"), !.validPST = TRUE,
                                  !.bCryptMethod = crypt.value, !.pc = "check"]
    /\ UNCHANGED <<bth, fat, sub, leaf, pc, fgen, mgen, msg, dir, blk, tc, att, life, perm, pstream, dec>>

\* the two checks of PST.__init__ on the header (pst.py 2466-2472)
PSTCheckHeader ==
    /\ pst.pc = "check"
    /\ IF pst.validPST # TRUE
       THEN pst' = [pst EXCEPT !.pc = "raised", !.err = "PANHuntException",
                               !.msg = "PST file is not a valid PST"]
       ELSE IF pst.bCryptMethod = "Unsupported"
       THEN pst' = [pst EXCEPT !.pc = "raised", !.err = "PANHuntException",
                               !.msg = "Unsupported encoding/crypt method"]
       ELSE pst' = [pst EXCEPT !.pc = "nbd"]
    /\ UNCHANGED <<bth, fat, sub, leaf, pc, fgen, mgen, msg, dir, blk, tc, att, life, perm, pstream, dec>>

\* NBD(self.fd, self.header): the NBT and the BBT leaf maps (pst.py 492-499);
\* pages_ok tells whether get_page_leaf_entries returns or raises
NBDInit ==
    /\ pst.pc = "nbd"
    /\ IF pst.pages_ok
       THEN pst' = [pst EXCEPT !.reads = @ \o <<"nbt_page", "bbt_page">>,
                               !.nbd = "built", !.pc = "messaging"]
       ELSE pst' = [pst EXCEPT !.reads = Append(@, "nbt_page"),
                               !.nbd = "failed", !.pc = "raised",
                               !.err = "PANHuntException", !.msg = "Invalid Leaf Key"]
    /\ UNCHANGED <<bth, fat, sub, leaf, pc, fgen, mgen, msg, dir, blk, tc, att, life, perm, pstream, dec>>

\* LTP(self.nbd) and Messaging(self.ltp): the message store PC is the first
\* node whose data blocks are fetched and decoded (pst.py 2475-2476, 1915-1928)
PSTMessaging ==
    /\ pst.pc = "messaging"
    /\ pst' = [pst EXCEPT !.reads = Append(@, "data_block"),
                          !.messaging = "built", !.pc = "opened"]
    /\ UNCHANGED <<bth, fat, sub, leaf, pc, fgen, mgen, msg, dir, blk, tc, att, life, perm, pstream, dec>>

InitPST ==
    /\ InitPSTComp
    /\ bth = Idle /\ fat = Idle /\ sub = Idle /\ leaf = Idle
    /\ pc = Idle /\ fgen = Idle /\ mgen = Idle
    /\ msg = Idle /\ dir = Idle /\ blk = Idle /\ tc = Idle /\ att = Idle /\ life = Idle /\ perm = Idle
    /\ pstream = Idle
    /\ dec = Idle

NextPST == PSTOpenFile \/ HeaderInit \/ PSTCheckHeader \/ NBDInit \/ PSTMessaging

SpecPST == InitPST /\ [][NextPST]_vars

PSTEnded == pst.pc \in {"raised", "opened"}

\* C7: a file that can be read and whose header is otherwise valid, with a
\* crypt-method byte other than 0 and 1, fails with the domain error
\* 'Unsupported encoding/crypt method', and none of its data blocks is decoded.
C7_UnsupportedCryptIsDomainError ==
    (/\ ~pst.locked /\ ~pst.truncated /\ HeaderValid(pst)
     /\ pst.cryptMethod \notin {0, 1})
    => /\ "data_block" \notin Range(pst.reads)
       /\ pst.pc # "opened"
       /\ pst.pc = "raised" =>
            pst.err = "PANHuntException" /\ pst.msg = "Unsupported encoding/crypt method"

PSTBadHeaderFields(p) ==
    p.dwMagic # "!BDN" \/ p.wMagicClient # "SM" \/ p.wVer \notin {14, 15, 23}

\* C10: construction on a readable file whose magic is not '!BDN', whose
\* client magic is not 'SM' or whose version is not 14, 15 or 23 ends with the
\* 'not a valid PST' domain error, and at no point of it is the NBD
\* constructed or an NBT or BBT page read.
C10_InvalidHeaderStopsBeforeNBD ==
    (~pst.locked /\ PSTBadHeaderFields(pst))
    => /\ pst.nbd = "none"
       /\ Range(pst.reads) \subseteq {"header"}
       /\ pst.pc \notin {"nbd", "messaging", "opened"}
       /\ pst.pc = "raised" =>
            pst.err = "PANHuntException" /\ pst.msg = "PST file is not a valid PST"

C10_Witness ==
    /\ pst.pc = "raised" /\ ~pst.locked /\ ~pst.truncated
    /\ pst.dwMagic = "!BDX" /\ pst.wMagicClient = "SM" /\ pst.wVer = 23
    /\ pst.reads = <<"header">>
    /\ pst.msg = "PST file is not a valid PST"

-----------------------------------------------------------------------------
(* Folder.__init__ and PST.folder_generator, pst.py 1426-1480, 2482-2500 *)

NFolders == 4

NID_TYPE_NORMAL_FOLDER == 2
NID_TYPE_NORMAL_MESSAGE == 4

\* class NID: the low 5 bits are the type
nidType(nid) == nid % 32

\* where the decoding of a folder raises the domain error, if anywhere
FolderFailures == {"none", "nidtype", "pc", "hierarchy", "contents"}

\* the NID under which a hierarchy-table row (or the root entry id) names
\* folder f: a normal-folder NID, or one of another type
FolderNid(fail, f) == 32 * f + (IF fail[f] = "nidtype" THEN 3 ELSE NID_TYPE_NORMAL_FOLDER)

\* the rows of folder f's hierarchy table, in row-index order
RECURSIVE ChildrenFrom(_, _, _)
ChildrenFrom(parent, f, g) ==
    IF g > NFolders THEN <<>>
    ELSE (IF parent[g] = f THEN <<g>> ELSE <<>>) \o ChildrenFrom(parent, f, g + 1)

\* a SubFolder that does not keep the path of the folder it was read in
SubFolderNoPath(nid, name, parent_path) == [nid |-> nid, name |-> name, parent_path |-> <<>>]

SubFolder(nid, name, parent_path) == [nid |-> nid, name |-> name, parent_path |-> parent_path]

(* Folder.__init__: the try block ends at the first domain error, which is  *)
(* logged; attrs holds the attributes assigned before that point, the       *)
(* others do not exist.  The DisplayName of folder f is f.                  *)
Folder(g, nid, parent_path) ==
    LET f == nid \div 32
        mode == g.fail[f]
        path == parent_path \o <<f>>
        rows == ChildrenFrom(g.parent, f, 2)
        subfolders == [i \in 1..Len(rows) |->
                          SubFolder(FolderNid(g.fail, rows[i]), rows[i], path)]
    IN IF nidType(nid) # NID_TYPE_NORMAL_FOLDER \/ mode = "pc"
       THEN [nid |-> nid, logged |-> TRUE, attrs |-> {},
             path |-> <<>>, subfolders |-> <<>>]
       ELSE IF mode = "hierarchy"
       THEN [nid |-> nid, logged |-> TRUE, attrs |-> {"pc", "path", "subfolders"},
             path |-> path, subfolders |-> <<>>]
       ELSE IF mode = "contents"
       THEN [nid |-> nid, logged |-> TRUE,
             attrs |-> {"pc", "path", "subfolders", "submessages"},
             path |-> path, subfolders |-> subfolders]
       ELSE [nid |-> nid, logged |-> FALSE,
             attrs |-> {"pc", "path", "subfolders", "submessages", "tc_fai"},
             path |-> path, subfolders |-> subfolders]

\* folder.subfolders as folder_generator reads it: an attribute that was
\* never assigned raises AttributeError
SubfoldersOf(folder) ==
    IF "subfolders" \notin folder.attrs THEN Raised("AttributeError")
    ELSE Returned(folder.subfolders)

(* The hierarchies of the model: folder 1 is the root, the parent of folder *)
(* f > 1 is a folder of smaller number.                                     *)
InitFGenComp ==
    \E parent \in [2..NFolders -> 1..NFolders],
       fail \in [1..NFolders -> FolderFailures] :
        /\ \A f \in 2..NFolders : parent[f] < f
        /\ fgen = [pc |-> "start", parent |-> parent, fail |-> fail,
                   subfolder_stack |-> <<>>, yielded |-> <<>>,
                   pushed |-> {}, err |-> "none"]

NidsOf(subfolders) == {subfolders[i].nid : i \in 1..Len(subfolders)}

\* the first next() on the generator: up to 'yield root_folder' (pst.py 2484-2488)
FolderGenFirst ==
    /\ fgen.pc = "start"
    /\ LET root_folder == Folder(fgen, FolderNid(fgen.fail, 1), <<>>)
           subs == SubfoldersOf(root_folder)
       IN IF subs.err # "none"
          THEN fgen' = [fgen EXCEPT !.pc = "raised", !.err = subs.err]
          ELSE fgen' = [fgen EXCEPT !.pc = "suspended",
                                    !.subfolder_stack = subs.value,
                                    !.pushed = NidsOf(subs.value),
                                    !.yielded = <<root_folder>>]
    /\ UNCHANGED <<bth, fat, sub, leaf, pst, pc, mgen, msg, dir, blk, tc, att, life, perm, pstream, dec>>

\* a later next(): one iteration of the while loop, or its end (pst.py 2495-2500);
\* subfolder_stack is the list object root_folder.subfolders, so the root
\* folder yielded first sees every pop and extend
FolderGenNext ==
    /\ fgen.pc = "suspended"
    /\ IF fgen.subfolder_stack = <<>>
       THEN fgen' = [fgen EXCEPT !.pc = "done"]
       ELSE LET n == Len(fgen.subfolder_stack)
                subfolder == fgen.subfolder_stack[n]
                rest == SubSeq(fgen.subfolder_stack, 1, n - 1)
                folder == Folder(fgen, subfolder.nid, subfolder.parent_path)
                subs == SubfoldersOf(folder)
            IN IF subs.err # "none"
               THEN fgen' = [fgen EXCEPT !.pc = "raised", !.err = subs.err,
                                         !.subfolder_stack = rest,
                                         !.yielded[1].subfolders = rest]
               ELSE fgen' = [fgen EXCEPT !.subfolder_stack = rest \o subs.value,
                                         !.pushed = @ \cup NidsOf(subs.value),
                                         !.yielded = [Append(@, folder) EXCEPT
                                                        ![1].subfolders = rest \o subs.value]]
    /\ UNCHANGED <<bth, fat, sub, leaf, pst, pc, mgen, msg, dir, blk, tc, att, life, perm, pstream, dec>>

InitFGen ==
    /\ InitFGenComp
    /\ bth = Idle /\ fat = Idle /\ sub = Idle /\ leaf = Idle
    /\ pst = Idle /\ pc = Idle /\ mgen = Idle
    /\ msg = Idle /\ dir = Idle /\ blk = Idle /\ tc = Idle /\ att = Idle /\ life = Idle /\ perm = Idle
    /\ pstream = Idle
    /\ dec = Idle

NextFGen == FolderGenFirst \/ FolderGenNext

SpecFGen == InitFGen /\ [][NextFGen]_vars

YieldedNids(g) == {g.yielded[i].nid : i \in 1..Len(g.yielded)}

\* C4: whatever the point of Folder construction at which the decoding of a
\* folder raises the domain error, folder_generator raises nothing itself and,
\* when it ends, has yielded every folder that was pending on its stack.
C4_FolderGeneratorSurvivesFailures ==
    /\ fgen.pc # "raised"
    /\ fgen.pc = "done" => fgen.pushed \subseteq YieldedNids(fgen)

-----------------------------------------------------------------------------
(* Message.__init__ and PST.message_generator, pst.py 1588-1604, 2502-2513 *)

MaxMessages == 3

\* the NIDs of the contents-table rows of the model: normal-message NIDs
\* (type 4) and one of another type (37: type 5)
MessageNids == {36, 68, 100, 37}

\* Message(nid, ltp, messaging=...): the NID type check and the PC of the
\* node raise the domain error; nothing in Message.__init__ catches it
Message(submessage) ==
    IF nidType(submessage.nid) # NID_TYPE_NORMAL_MESSAGE THEN Raised("PANHuntException")
    ELSE IF ~submessage.pc_ok THEN Raised("PANHuntException")
    ELSE Returned(submessage.nid)

\* what the generator does with an error raised by Message(...): its try
\* statement has a handler for GeneratorExit only, so the error leaves the
\* generator, which is finished from then on
MessageErrorEscapes(err) == err # "GeneratorExit"

(* folder.submessages: the SubMessages of the rows in row-index order, with *)
(* pairwise different NIDs; pc_ok tells whether the PC of the node decodes. *)
InitMGenComp ==
    \E n \in 0..MaxMessages :
      \E nids \in [1..n -> MessageNids], oks \in [1..n -> BOOLEAN] :
        /\ \A i, j \in 1..n : i # j => nids[i] # nids[j]
        /\ mgen = [pc |-> "start",
                   submessages |-> [i \in 1..n |-> [nid |-> nids[i], pc_ok |-> oks[i]]],
                   index |-> 0, yielded |-> <<>>, err |-> "none"]

\* next() on the generator: the next turn of the for loop up to the yield,
\* or the end of the loop (pst.py 2505-2508)
MessageGenNext ==
    /\ mgen.pc \in {"start", "suspended"}
    /\ IF mgen.index = Len(mgen.submessages)
       THEN mgen' = [mgen EXCEPT !.pc = "done"]
       ELSE LET message == Message(mgen.submessages[mgen.index + 1])
            IN IF message.err = "none"
               THEN mgen' = [mgen EXCEPT !.pc = "suspended", !.index = @ + 1,
                                         !.yielded = Append(@, message.value)]
               ELSE IF MessageErrorEscapes(message.err)
               THEN mgen' = [mgen EXCEPT !.pc = "raised", !.index = @ + 1,
                                         !.err = message.err]
               ELSE mgen' = [mgen EXCEPT !.pc = "suspended", !.index = @ + 1]
    /\ UNCHANGED <<bth, fat, sub, leaf, pst, pc, fgen, msg, dir, blk, tc, att, life, perm, pstream, dec>>

\* next() on a generator that raised: it is finished, StopIteration
MessageGenNextAfterRaise ==
    /\ mgen.pc = "raised"
    /\ mgen' = [mgen EXCEPT !.pc = "done"]
    /\ UNCHANGED <<bth, fat, sub, leaf, pst, pc, fgen, msg, dir, blk, tc, att, life, perm, pstream, dec>>

\* close() on the generator, or its collection: GeneratorExit is raised at
\* the yield, caught, and the generator returns (pst.py 2510-2513)
MessageGenClose ==
    /\ mgen.pc \in {"start", "suspended"}
    /\ mgen' = [mgen EXCEPT !.pc = "closed"]
    /\ UNCHANGED <<bth, fat, sub, leaf, pst, pc, fgen, msg, dir, blk, tc, att, life, perm, pstream, dec>>

InitMGen ==
    /\ InitMGenComp
    /\ bth = Idle /\ fat = Idle /\ sub = Idle /\ leaf = Idle
    /\ pst = Idle /\ pc = Idle /\ fgen = Idle
    /\ msg = Idle /\ dir = Idle /\ blk = Idle /\ tc = Idle /\ att = Idle /\ life = Idle /\ perm = Idle
    /\ pstream = Idle
    /\ dec = Idle

NextMGen == MessageGenNext \/ MessageGenNextAfterRaise \/ MessageGenClose

SpecMGen == InitMGen /\ [][NextMGen]_vars

\* the NIDs of the submessages whose Message can be constructed
GoodMessages(m) ==
    {m.submessages[i].nid : i \in {j \in 1..Len(m.submessages) :
                                      Message(m.submessages[j]).err = "none"}}

\* C3: the domain error raised while constructing the Message of one
\* submessage never reaches the consumer, and a generator pulled to its end
\* has yielded the Message of every submessage that can be constructed,
\* those after a failing one included.
C3_MessageGeneratorSuppressesErrors ==
    /\ mgen.err = "none"
    /\ mgen.pc = "done" => GoodMessages(mgen) \subseteq Range(mgen.yielded)

-----------------------------------------------------------------------------
(* PCBTHData.__init__, PstPTypeWrapper.value and PC.__init__,              *)
(* pst.py 815-849, 867-969, 1014-1034                                      *)

MaxPCRecords == 2

bTypeTC == 124
bTypePC == 188
NID_TYPE_HID == 0

\* the 16-bit type words of the model's records: Unspecified, Integer32,
\* Currency, String, Guid, Binary, and a word that names no property type
PropTypeWords == {0, 3, 6, 31, 72, 258, 9999}

\* PTypeEnum(wPropType).  The enum is declared in the module enums; the
\* words are those of the property data types, and a word that names no
\* type is taken as Unspecified.
PTypeEnum(wPropType) ==
    IF wPropType = 3 THEN "PtypInteger32"
    ELSE IF wPropType = 6 THEN "PtypCurrency"
    ELSE IF wPropType = 31 THEN "PtypString"
    ELSE IF wPropType = 258 THEN "PtypBinary"
    ELSE IF wPropType = 72 THEN "PtypGuid"
    ELSE IF wPropType = 30 THEN "PtypString8"
    ELSE IF wPropType = 1 THEN "PtypNull"
    ELSE IF wPropType = 4116 THEN "PtypMultipleInteger64"
    ELSE IF wPropType = 4098 THEN "PtypMultipleInteger16"
    ELSE IF wPropType = 4099 THEN "PtypMultipleInteger32"
    ELSE "PtypUnspecified"

\* LTP.ptypes: the descriptor of a type
ptypes(ptype) ==
    IF ptype = "PtypInteger32" THEN [ptype |-> ptype, byte_count |-> 4, is_variable |-> FALSE, is_multi |-> FALSE]
    ELSE IF ptype = "PtypCurrency" THEN [ptype |-> ptype, byte_count |-> 8, is_variable |-> FALSE, is_multi |-> FALSE]
    ELSE IF ptype = "PtypString" THEN [ptype |-> ptype, byte_count |-> 0, is_variable |-> TRUE, is_multi |-> FALSE]
    ELSE IF ptype = "PtypString8" THEN [ptype |-> ptype, byte_count |-> 0, is_variable |-> TRUE, is_multi |-> FALSE]
    ELSE IF ptype = "PtypGuid" THEN [ptype |-> ptype, byte_count |-> 16, is_variable |-> FALSE, is_multi |-> FALSE]
    ELSE IF ptype = "PtypBinary" THEN [ptype |-> ptype, byte_count |-> 2, is_variable |-> FALSE, is_multi |-> TRUE]
    ELSE IF ptype \in {"PtypMultipleInteger16", "PtypMultipleInteger32", "PtypMultipleInteger64"}
    THEN [ptype |-> ptype, byte_count |-> 2, is_variable |-> FALSE, is_multi |-> TRUE]
    ELSE [ptype |-> ptype, byte_count |-> 0, is_variable |-> FALSE, is_multi |-> FALSE]

\* struct.unpack of a signed little-endian integer: a set top bit means the
\* two's complement, -(the value of the inverted bytes) - 1
unpack_signed(bytes) ==
    IF bytes # <<>> /\ bytes[Len(bytes)] >= 128
    THEN -unpack_integer([i \in 1..Len(bytes) |-> 255 - bytes[i]]) - 1
    ELSE unpack_integer(bytes)

IntValue(n) == [kind |-> "int", int |-> n, bytes |-> <<>>]
StrValue(payload) == [kind |-> "str", int |-> 0, bytes |-> payload]
BytesValue(payload) == [kind |-> "bytes", int |-> 0, bytes |-> payload]
NoneValue == [kind |-> "None", int |-> 0, bytes |-> <<>>]
ListValue(items) == [kind |-> "list", int |-> 0, bytes |-> items]

\* unpack_list_int: the signed integers of bit_size bits that the payload
\* holds one after the other
unpack_list_int(payload, bit_size) ==
    LET buffer_size == bit_size \div 8
        count == Len(payload) \div buffer_size
    IN ListValue([i \in 1..count |->
                    unpack_signed(Slice(payload, (i - 1) * buffer_size, i * buffer_size))])

\* PstPTypeWrapper.value for the types of the model
PstPTypeWrapperValue(ptype, payload) ==
    IF ptype.ptype = "PtypInteger32"
    THEN (IF Len(payload) = 4 THEN Returned(IntValue(unpack_signed(payload)))
          ELSE Raised("struct.error"))
    ELSE IF ptype.ptype = "PtypCurrency" THEN Raised("NotImplementedError")
    ELSE IF ptype.ptype = "PtypString" THEN Returned(StrValue(payload))
    ELSE IF ptype.ptype = "PtypString8" THEN Returned(BytesValue(payload))
    ELSE IF ptype.ptype = "PtypGuid" THEN Returned(BytesValue(payload))
    ELSE IF ptype.ptype = "PtypBinary" THEN Returned(BytesValue(payload))
    ELSE IF ptype.ptype = "PtypMultipleInteger16" THEN Returned(unpack_list_int(payload, 16))
    ELSE IF ptype.ptype = "PtypMultipleInteger32" THEN Returned(unpack_list_int(payload, 32))
    \* the list that unpack_list_int builds is not returned (pst.py 930-931),
    \* no later test holds and the method ends with 'return None' (969)
    ELSE IF ptype.ptype = "PtypMultipleInteger64" THEN Returned(NoneValue)
    ELSE IF ptype.ptype = "PtypNull" THEN Returned(NoneValue)
    ELSE Returned(BytesValue(payload))

\* hn.get_hid_data on a heap of one page with Len(hn.heap) allocations:
\* rgibAlloc[hidIndex - 1] and rgibAlloc[hidIndex] are list accesses, and
\* index -1 is the last offset, so allocation 0 is the empty slice
HNGetHidData(hn, hid) ==
    IF hid.hidBlockIndex # 0 \/ hid.hidIndex > Len(hn.heap) THEN Raised("IndexError")
    ELSE IF hid.hidIndex = 0 THEN Returned(<<>>)
    ELSE Returned(get_hid_data(hn.heap, hid))

\* a fetch that gives the data of the first block of the tree only
PCFetchFirstBlock(hn, bid) ==
    IF bid \in DOMAIN hn.block_data THEN Returned(<<hn.block_data[bid][1]>>)
    ELSE Raised("PANHuntException")

\* hn.ltp.nbd.fetch_all_block_data(bid) for the data trees of the model's
\* sub-nodes: the data of the blocks of the tree, or the domain error of
\* fetch_block for a BID the BBT does not hold
PCFetchAllBlockData(hn, bid) ==
    IF bid \in DOMAIN hn.block_data THEN Returned(hn.block_data[bid])
    ELSE Raised("PANHuntException")

\* PCBTHData.__init__
PCBTHData(bth_data, hn) ==
    LET wPropId == unpack_integer(bth_data.key)
        wPropType == unpack_integer(Slice(bth_data.data, 0, 2))
        dwValueHnid == Slice(bth_data.data, 2, 6)
        ptype == ptypes(PTypeEnum(wPropType))
        nid == unpack_integer(dwValueHnid)
        built(v) == IF v.err # "none" THEN v
                    ELSE Returned([wPropId |-> wPropId, wPropType |-> wPropType,
                                   dwValueHnid |-> dwValueHnid, ptype |-> ptype.ptype,
                                   value |-> v.value])
        from_heap == LET data == HNGetHidData(hn, HID(dwValueHnid))
                     IN IF data.err # "none" THEN data
                        ELSE built(PstPTypeWrapperValue(ptype, data.value))
    IN IF ~ptype.is_variable /\ ~ptype.is_multi
       THEN IF ptype.byte_count <= 4
            THEN built(PstPTypeWrapperValue(ptype, Slice(dwValueHnid, 0, ptype.byte_count)))
            ELSE from_heap
       ELSE IF nidType(nid) = NID_TYPE_HID THEN from_heap
       ELSE IF hn.subnodes # EmptyDict /\ nid \in DOMAIN hn.subnodes
       THEN LET data_list == PCFetchAllBlockData(hn, hn.subnodes[nid].bidData)
            IN IF data_list.err # "none" THEN data_list
               ELSE built(PstPTypeWrapperValue(ptype, Concat(data_list.value)))
       ELSE Raised("PANHuntException")

\* the property ids whose value is an EntryID (PidTagEntryID,
\* PidTagIpmSubTreeEntryId, PidTagIpmWastebasketEntryId, PidTagFinderEntryId)
EntryIdProps == {4095, 13792, 13795, 13799}

\* panutils.as_binary on a value that is bytes
as_binary(value) == value.bytes

\* EntryID.__init__: more than 24 bytes leave an object without fields,
\* other lengths than 24 fail in struct.unpack
EntryID(payload) ==
    IF Len(payload) > 24 THEN Returned([kind |-> "EntryID", int |-> 0, bytes |-> <<>>])
    ELSE IF Len(payload) # 24 THEN Raised("struct.error")
    ELSE Returned([kind |-> "EntryID", int |-> unpack_integer(Slice(payload, 20, 24)),
                   bytes |-> Slice(payload, 0, 20)])

\* the property ids of the model's records: PidTagEntryID and PidTagDisplayName
PCPropIds == {4095, 12289}

\* the dwValueHnid of the model's records: an inline value that is also the
\* NID of a sub-node the node has not, allocations 1 to 3 of the heap, an
\* allocation the heap has not, the NID of a sub-node of the node
PCHnids == {<<5, 0, 0, 0>>, HIDBytes(1), HIDBytes(2), HIDBytes(3), HIDBytes(4),
            <<63, 0, 0, 0>>}

\* the heap of the model: a string, four bytes, an EntryID naming NID 290
PCHeap == << <<72, 0, 105, 0>>, <<7, 0, 0, 0>>,
             <<0, 0, 0, 0>> \o [i \in 1..16 |-> 1] \o pack_integer(290, 4) >>

\* the BTHData of a PC record: a 2-byte key and 6 bytes of data
PCRecord(wPropId, wPropType, dwValueHnid) ==
    [kind |-> "BTHData", key |-> pack_integer(wPropId, 2),
     data |-> pack_integer(wPropType, 2) \o dwValueHnid]

PCRecords ==
    {PCRecord(id, type, hnid) : id \in PCPropIds \ EntryIdProps,
                                type \in PropTypeWords, hnid \in PCHnids}
    \cup {PCRecord(id, 258, hnid) : id \in PCPropIds \cap EntryIdProps, hnid \in PCHnids}

(* The heap node handed to PC(hn): its client signature, the key and data *)
(* sizes and the leaf records of its BTH, its sub-nodes (none, or sub-node *)
(* 63 whose data tree is present or not).  A record of an EntryID property *)
(* is of type Binary.                                                      *)
InitPCComp ==
    \E bClientSig \in {bTypePC, bTypeTC}, cbKey \in {2, 4}, cbEnt \in {6, 8},
       n \in 0..MaxPCRecords, subs \in {"none", "present", "dangling"} :
      \E recs \in [1..n -> PCRecords] :
        /\ (bClientSig # bTypePC \/ cbKey # 2 \/ cbEnt # 6) => n = 0
        /\ pc = [pc |-> "start",
                 hn |-> [bClientSig |-> bClientSig, heap |-> PCHeap,
                         subnodes |-> IF subs = "none" THEN EmptyDict
                                      ELSE DictSet(EmptyDict, 63, [bidData |-> BidData]),
                         block_data |-> IF subs = "present"
                                        THEN DictSet(EmptyDict, BidData, << <<66, 0>>, <<67, 0>> >>)
                                        ELSE EmptyDict],
                 cbKey |-> cbKey, cbEnt |-> cbEnt,
                 bth_data_list |-> recs,
                 index |-> 0, properties |-> EmptyDict, err |-> "none"]

\* PC.__init__ up to the loop (pst.py 1016-1027)
PCInit ==
    /\ pc.pc = "start"
    /\ IF pc.hn.bClientSig # bTypePC \/ pc.cbKey # 2 \/ pc.cbEnt # 6
       THEN pc' = [pc EXCEPT !.pc = "raised", !.err = "PANHuntException"]
       ELSE pc' = [pc EXCEPT !.pc = "loop", !.properties = EmptyDict]
    /\ UNCHANGED <<bth, fat, sub, leaf, pst, fgen, mgen, msg, dir, blk, tc, att, life, perm, pstream, dec>>

\* self.properties[pc_property.wPropId] = pc_property
PCInsert(properties, pc_property) ==
    Returned(DictSet(properties, pc_property.wPropId, pc_property))

\* one turn of the loop over bth_data_list, or its end (pst.py 1028-1034)
PCLoop ==
    /\ pc.pc = "loop"
    /\ IF pc.index = Len(pc.bth_data_list)
       THEN pc' = [pc EXCEPT !.pc = "done"]
       ELSE LET pc_property == PCBTHData(pc.bth_data_list[pc.index + 1], pc.hn)
                entryId == IF pc_property.err = "none"
                              /\ pc_property.value.wPropId \in EntryIdProps
                           THEN EntryID(as_binary(pc_property.value.value))
                           ELSE Returned(0)
                inserted == PCInsert(pc.properties,
                                IF pc_property.value.wPropId \in EntryIdProps
                                THEN [pc_property.value EXCEPT !.value = entryId.value]
                                ELSE pc_property.value)
            IN IF pc_property.err # "none"
               THEN pc' = [pc EXCEPT !.pc = "raised", !.err = pc_property.err,
                                     !.index = @ + 1]
               ELSE IF entryId.err # "none"
               THEN pc' = [pc EXCEPT !.pc = "raised", !.err = entryId.err,
                                     !.index = @ + 1]
               ELSE IF inserted.err # "none"
               THEN pc' = [pc EXCEPT !.pc = "raised", !.err = inserted.err,
                                     !.index = @ + 1]
               ELSE pc' = [pc EXCEPT !.properties = inserted.value, !.index = @ + 1]
    /\ UNCHANGED <<bth, fat, sub, leaf, pst, fgen, mgen, msg, dir, blk, tc, att, life, perm, pstream, dec>>

InitPC ==
    /\ InitPCComp
    /\ bth = Idle /\ fat = Idle /\ sub = Idle /\ leaf = Idle
    /\ pst = Idle /\ fgen = Idle /\ mgen = Idle
    /\ msg = Idle /\ dir = Idle /\ blk = Idle /\ tc = Idle /\ att = Idle /\ life = Idle /\ perm = Idle
    /\ pstream = Idle
    /\ dec = Idle

NextPC == PCInit \/ PCLoop

SpecPC == InitPC /\ [][NextPC]_vars

\* the PropertyId and PropertyType of record i of the BTH
PCRecordId(p, i) == unpack_integer(p.bth_data_list[i].key)
PCRecordType(p, i) == unpack_integer(Slice(p.bth_data_list[i].data, 0, 2))

\* the errors that a property type, and nothing else of an entry, brings
\* about: the type's decoder refusing the type, the type lookup failing
PropertyTypeErrors == {"NotImplementedError", "ValueError", "KeyError"}

\* C8: the decoding of a PC never ends with an error that the PropertyType of
\* an entry caused, and a constructed PC holds, for every record whose type
\* word names no property type, an entry under its PropertyId; the entry made
\* from that record is of type Unspecified with opaque bytes as its value.
C8_PropertyTypeNeverAborts ==
    /\ pc.err \notin PropertyTypeErrors
    /\ pc.pc = "done" =>
         \A i \in 1..Len(pc.bth_data_list) :
            PCRecordType(pc, i) \notin {0, 3, 6, 31, 72, 258} =>
               /\ PCRecordId(pc, i) \in DOMAIN pc.properties
               /\ LET e == pc.properties[PCRecordId(pc, i)]
                  IN e.wPropType = PCRecordType(pc, i) =>
                        e.ptype = "PtypUnspecified" /\ e.value.kind = "bytes"

\* C9: a PC is constructed only from records of pairwise different
\* PropertyId: two records of the same PropertyId end the construction with
\* an error, so no constructed PC holds one of them with the other dropped.
C9_DuplicatePropertyIdFatal ==
    pc.pc = "done" =>
        \A i, j \in 1..Len(pc.bth_data_list) :
            i # j => PCRecordId(pc, i) # PCRecordId(pc, j)

-----------------------------------------------------------------------------
(* MSCFB.__init__, MSCFB.read_header and MSMSG.__init__,                   *)
(* msmsg.py 303-350, 720-736, 801-832                                      *)

MaxStorageIx == 2

\* the first 8 bytes of the model's files: the CFB signature, a signature
\* with another last byte, a file of 4 bytes
CFBSignature == <<208, 207, 17, 224, 161, 177, 26, 225>>
CFBSignatures == {CFBSignature, <<208, 207, 17, 224, 161, 177, 26, 226>>, <<208, 207, 17, 224>>}

\* how much of the 512-byte header the file holds: less than the version
\* fields, the version fields but not all fields after them, all of it
CFBAvail == {"signature", "version", "full"}

CFBMajorVersions == {2, 3, 4, 5}

\* a version test that accepts every major version
MajorVersionAny(MajorVersion) == TRUE

\* self.MajorVersion in (3, 4)
MajorVersionSupported(MajorVersion) == MajorVersion \in {3, 4}

\* MSCFB.read_header: validCFB ("True" or "False") and the error it raises,
\* if any
read_header(f) ==
    IF f.signature # CFBSignature THEN [validCFB |-> "False", err |-> "none"]
    ELSE IF f.avail = "signature" THEN [validCFB |-> "False", err |-> "struct.error"]
    ELSE IF ~MajorVersionSupported(f.MajorVersion) THEN [validCFB |-> "False", err |-> "none"]
    ELSE IF f.avail = "version" THEN [validCFB |-> "False", err |-> "struct.error"]
    ELSE IF f.FirstDIFATSectorLocation # ENDOFCHAIN
    THEN [validCFB |-> "True", err |-> "PANHuntException"]
    ELSE [validCFB |-> "True", err |-> "none"]

\* panutils.to_zeropaddedhex(value, n): n hexadecimal digits, the most
\* significant first
HexDigits == <<"0", "1", "2", "3", "4", "5", "6", "7", "8", "9", "A", "B", "C", "D", "E", "F">>

RECURSIVE to_zeropaddedhex(_, _)
to_zeropaddedhex(value, n) ==
    IF n = 0 THEN <<>>
    ELSE to_zeropaddedhex(value \div 16, n - 1) \o <<HexDigits[(value % 16) + 1]>>

\* the name of numbered storage i in a file: the prefix and 8 hex digits
NumberedStorage(prefix, i) == [prefix |-> prefix, number |-> to_zeropaddedhex(i, 8)]

\* a numbering of the names that starts at 1
StorageNameFromOne(prefix, index) ==
    [prefix |-> prefix, number |-> to_zeropaddedhex(index + 1, 8)]

\* the name the loops of set_recipients and set_attachments look up:
\* f'{prefix}{panutils.to_zeropaddedhex(index, 8)}'
StorageName(prefix, index) == [prefix |-> prefix, number |-> to_zeropaddedhex(index, 8)]

\* the children of the root storage of the model: the property stream and
\* the recipient and attachment storages the file holds; each storage holds
\* its entry number, and whether its property stream can be decoded
RootChildren(recips, attachs, bad) ==
    [name \in {[prefix |-> "__properties_version1.0", number |-> <<>>]}
              \cup {NumberedStorage("__recip_version1.0_#", i) : i \in recips}
              \cup {NumberedStorage("__attach_version1.0_#", i) : i \in attachs}
       |-> [name |-> name, decodes |-> ~(name.number = to_zeropaddedhex(bad, 8))]]

(* The files of the model.  build tells whether FAT, MiniFAT and Directory *)
(* can be built, props whether the root property stream holds the          *)
(* properties set_common_properties needs; a file whose header is rejected *)
(* or whose directory cannot be built has no children to look at.          *)
InitMSGComp ==
    \E signature \in CFBSignatures, avail \in CFBAvail, MajorVersion \in CFBMajorVersions,
       FirstDIFATSectorLocation \in {ENDOFCHAIN, 0}, build \in BOOLEAN, props \in BOOLEAN,
       recips \in SUBSET (0..MaxStorageIx), attachs \in SUBSET (0..MaxStorageIx),
       bad \in 0..(MaxStorageIx + 1) :
        LET f == [signature |-> signature, avail |-> avail, MajorVersion |-> MajorVersion,
                  FirstDIFATSectorLocation |-> FirstDIFATSectorLocation]
            opens == read_header(f).validCFB = "True" /\ read_header(f).err = "none" /\ build /\ props
        IN /\ ~opens => (recips = {} /\ attachs = {} /\ bad = 0)
           /\ msg = [pc |-> "read_header", file |-> f, build |-> build, props |-> props,
                     children |-> RootChildren(recips, attachs, bad),
                     validCFB |-> "unset", validMSG |-> "unset", built |-> {},
                     recipient_dir_index |-> 0, attachment_dir_index |-> 0,
                     recipients |-> <<>>, attachments |-> <<>>, read |-> {},
                     err |-> "none"]

\* self.read_header(self.fd) in MSCFB.__init__ (msmsg.py 311, 329-350)
MSCFBReadHeader ==
    /\ msg.pc = "read_header"
    /\ LET h == read_header(msg.file)
       IN IF h.err # "none"
          THEN msg' = [msg EXCEPT !.validCFB = h.validCFB, !.pc = "raised", !.err = h.err]
          ELSE msg' = [msg EXCEPT !.validCFB = h.validCFB, !.pc = "mscfb"]
    /\ UNCHANGED <<bth, fat, sub, leaf, pst, pc, fgen, mgen, dir, blk, tc, att, life, perm, pstream, dec>>

\* the rest of MSCFB.__init__ (msmsg.py 312-327)
MSCFBBuild ==
    /\ msg.pc = "mscfb"
    /\ IF msg.validCFB = "False" THEN msg' = [msg EXCEPT !.pc = "msmsg"]
       ELSE IF ~msg.build
       THEN msg' = [msg EXCEPT !.built = {"fat", "minifat"}, !.pc = "raised",
                               !.err = "PANHuntException"]
       ELSE msg' = [msg EXCEPT !.built = {"fat", "minifat", "directory"}, !.pc = "msmsg"]
    /\ UNCHANGED <<bth, fat, sub, leaf, pst, pc, fgen, mgen, dir, blk, tc, att, life, perm, pstream, dec>>

\* MSMSG.__init__ after MSCFB(...), up to set_common_properties
\* (msmsg.py 725-734); a property set_common_properties reads without a
\* test for None and the file has not makes it raise AttributeError
MSMSGInit ==
    /\ msg.pc = "msmsg"
    /\ IF msg.validCFB = "False"
       THEN msg' = [msg EXCEPT !.validMSG = "False", !.pc = "done"]
       ELSE IF ~msg.props
       THEN msg' = [msg EXCEPT !.validMSG = "True", !.built = @ \cup {"prop_stream"},
                               !.pc = "raised", !.err = "AttributeError"]
       ELSE msg' = [msg EXCEPT !.validMSG = "True", !.built = @ \cup {"prop_stream"},
                               !.pc = "set_recipients"]
    /\ UNCHANGED <<bth, fat, sub, leaf, pst, pc, fgen, mgen, dir, blk, tc, att, life, perm, pstream, dec>>

\* PropertyStream(self, dir_entry, 8) and Recipient(rps) or Attachment(aps)
\* on a numbered storage
DecodeStorage(dir_entry) ==
    IF dir_entry.decodes THEN Returned(dir_entry.name) ELSE Raised("PANHuntException")

\* the test of the while loops: the name is a key of the root's children
StoragePresent(children, name) == name \in DOMAIN children

\* one turn of the loop of set_recipients, or its break (msmsg.py 803-816)
MSMSGSetRecipients ==
    /\ msg.pc = "set_recipients"
    /\ LET recipient_dir_name == StorageName("__recip_version1.0_#", msg.recipient_dir_index)
       IN IF StoragePresent(msg.children, recipient_dir_name)
          THEN LET recipient == DecodeStorage(msg.children[recipient_dir_name])
               IN IF recipient.err # "none"
                  THEN msg' = [msg EXCEPT !.read = @ \cup {recipient_dir_name},
                                          !.pc = "raised", !.err = recipient.err]
                  ELSE msg' = [msg EXCEPT !.read = @ \cup {recipient_dir_name},
                                          !.recipients = Append(@, recipient.value),
                                          !.recipient_dir_index = @ + 1]
          ELSE msg' = [msg EXCEPT !.pc = "set_attachments"]
    /\ UNCHANGED <<bth, fat, sub, leaf, pst, pc, fgen, mgen, dir, blk, tc, att, life, perm, pstream, dec>>

\* one turn of the loop of set_attachments, or its break (msmsg.py 819-832)
MSMSGSetAttachments ==
    /\ msg.pc = "set_attachments"
    /\ LET attachment_dir_name == StorageName("__attach_version1.0_#", msg.attachment_dir_index)
       IN IF StoragePresent(msg.children, attachment_dir_name)
          THEN LET attachment == DecodeStorage(msg.children[attachment_dir_name])
               IN IF attachment.err # "none"
                  THEN msg' = [msg EXCEPT !.read = @ \cup {attachment_dir_name},
                                          !.pc = "raised", !.err = attachment.err]
                  ELSE msg' = [msg EXCEPT !.read = @ \cup {attachment_dir_name},
                                          !.attachments = Append(@, attachment.value),
                                          !.attachment_dir_index = @ + 1]
          ELSE msg' = [msg EXCEPT !.pc = "done"]
    /\ UNCHANGED <<bth, fat, sub, leaf, pst, pc, fgen, mgen, dir, blk, tc, att, life, perm, pstream, dec>>

InitMSG ==
    /\ InitMSGComp
    /\ bth = Idle /\ fat = Idle /\ sub = Idle /\ leaf = Idle /\ pst = Idle /\ pc = Idle /\ fgen = Idle
    /\ mgen = Idle /\ dir = Idle /\ blk = Idle /\ tc = Idle /\ att = Idle /\ life = Idle /\ perm = Idle
    /\ pstream = Idle
    /\ dec = Idle

NextMSG ==
    \/ MSCFBReadHeader \/ MSCFBBuild \/ MSMSGInit
    \/ MSMSGSetRecipients \/ MSMSGSetAttachments

SpecMSG == InitMSG /\ [][NextMSG]_vars

MSGRejected(f) ==
    \/ f.signature # CFBSignature
    \/ f.avail # "signature" /\ f.MajorVersion \notin {3, 4}

\* C11: construction on a file whose first 8 bytes are not the signature, or
\* whose major version is neither 3 nor 4, raises nothing, builds no FAT,
\* MiniFAT, directory or property stream, and ends with validCFB and validMSG
\* false; validMSG is true only for a file with the signature and a major
\* version of 3 or 4.
C11_InvalidCFBIsFlaggedNotRaised ==
    /\ MSGRejected(msg.file) =>
          /\ msg.err = "none" /\ msg.pc # "raised"
          /\ msg.built = {}
          /\ msg.validCFB # "True" /\ msg.validMSG # "True"
          /\ msg.pc = "done" => msg.validCFB = "False" /\ msg.validMSG = "False"
    /\ msg.validMSG = "True" =>
          msg.file.signature = CFBSignature /\ msg.file.MajorVersion \in {3, 4}

C11_Witness ==
    /\ msg.pc = "done" /\ msg.validMSG = "False"
    /\ msg.file.signature = CFBSignature /\ msg.file.MajorVersion = 5

\* the smallest index whose numbered storage the root storage has not
FirstGap(children, prefix) ==
    CHOOSE k \in 0..(MaxStorageIx + 1) :
        /\ NumberedStorage(prefix, k) \notin DOMAIN children
        /\ \A j \in 0..(k - 1) : NumberedStorage(prefix, j) \in DOMAIN children

StoragesBelowGap(children, prefix) ==
    [i \in 1..FirstGap(children, prefix) |-> NumberedStorage(prefix, i - 1)]

\* C17: once set_recipients has returned, recipients holds one element per
\* recipient storage below the first missing number, the i-th decoded from
\* storage number i; likewise attachments once set_attachments has returned;
\* and no numbered storage above the first gap is ever read.
C17_EnumerationStopsAtFirstGap ==
    /\ msg.pc \in {"set_attachments", "done"} /\ msg.validMSG = "True" =>
          msg.recipients = StoragesBelowGap(msg.children, "__recip_version1.0_#")
    /\ msg.pc = "done" /\ msg.validMSG = "True" =>
          msg.attachments = StoragesBelowGap(msg.children, "__attach_version1.0_#")
    /\ \A name \in msg.read :
          name \in Range(StoragesBelowGap(msg.children, name.prefix))

C17_Witness ==
    /\ msg.pc = "done" /\ msg.validMSG = "True"
    /\ NumberedStorage("__recip_version1.0_#", 2) \in DOMAIN msg.children
    /\ NumberedStorage("__recip_version1.0_#", 1) \notin DOMAIN msg.children
    /\ Len(msg.recipients) = 1
    /\ NumberedStorage("__attach_version1.0_#", 2) \in DOMAIN msg.children
    /\ Len(msg.attachments) = 3

\* ------------------------------------------------------------------
\* Compound-file directory: Directory.__init__ and set_entry_children
\* (msmsg.py 126-160).  The directory is the list of the 128-byte entries of
\* the directory chain; entry 0 is the root storage.  SiblingID,
\* RightSiblingID and ChildID are read from the file as they are
\* (struct.unpack('III'), msmsg.py 219-220), so they may name any entry.
\* ------------------------------------------------------------------

\* 0xFFFFFFFF as a 32-bit value
NOSTREAM == -1

DirEntryIds == {0, 1, 2}

DirEntryNames == {"a", "b"}

DirLinks == {NOSTREAM} \cup DirEntryIds

\* the interpreter's limit on nested calls, at which the call raises
\* RecursionError
MaxRecursion == 4

DirectoryEntry(Name, SiblingID, RightSiblingID, ChildID) ==
    [Name |-> Name, SiblingID |-> SiblingID,
     RightSiblingID |-> RightSiblingID, ChildID |-> ChildID]

\* the directories of the model: the root has no siblings
DirectoryEntries ==
    {e \in [DirEntryIds -> [Name : DirEntryNames \cup {"Root Entry"},
                            SiblingID : DirLinks \ {0},
                            RightSiblingID : DirLinks \ {0},
                            ChildID : DirLinks]] :
        /\ e[0].Name = "Root Entry"
        /\ e[0].SiblingID = NOSTREAM /\ e[0].RightSiblingID = NOSTREAM
        /\ \A i \in DirEntryIds \ {0} : e[i].Name \in DirEntryNames}

\* the first lines of set_entry_children: the frame of a call
SetEntryChildrenFrame(entries, id) ==
    [dir_entry |-> id,
     child_ids_queue |-> IF entries[id].ChildID # NOSTREAM
                         THEN <<entries[id].ChildID>> ELSE <<>>]

InitDirComp ==
    \E entries \in DirectoryEntries :
        dir = [pc |-> "init", entries |-> entries,
               children |-> [i \in DirEntryIds |-> EmptyDict],
               stack |-> <<>>, err |-> "none"]

\* Directory.__init__: self.set_entry_children(self.entries[0])
DirectoryInit ==
    /\ dir.pc = "init"
    /\ dir' = [dir EXCEPT !.pc = "running",
                          !.children[0] = EmptyDict,
                          !.stack = <<SetEntryChildrenFrame(dir.entries, 0)>>]
    /\ UNCHANGED <<bth, fat, sub, leaf, pst, pc, fgen, mgen, msg, blk, tc, att, life, perm, pstream, dec>>

\* the children of the entry after the duplicate test and the assignment
ChildrenAdd(children, Name, id) ==
    IF Name \in DOMAIN children
    THEN [ok |-> FALSE, children |-> children]
    ELSE [ok |-> TRUE, children |-> DictSet(children, Name, id)]

\* one iteration of the while loop of the innermost call, the nested call's
\* first lines included
SetEntryChildrenLoop ==
    /\ dir.pc = "running"
    /\ dir.stack # <<>>
    /\ LET depth == Len(dir.stack)
           top == dir.stack[depth]
           q == top.child_ids_queue
       IN /\ q # <<>>
          /\ LET id == q[Len(q)]
                 child_entry == dir.entries[id]
                 added == ChildrenAdd(dir.children[top.dir_entry], child_entry.Name, id)
                 q1 == SubSeq(q, 1, Len(q) - 1)
                 q2 == IF child_entry.SiblingID # NOSTREAM
                       THEN Append(q1, child_entry.SiblingID) ELSE q1
                 q3 == IF child_entry.RightSiblingID # NOSTREAM
                       THEN Append(q2, child_entry.RightSiblingID) ELSE q2
                 children1 == [dir.children EXCEPT ![top.dir_entry] = added.children]
                 stack1 == [dir.stack EXCEPT ![depth].child_ids_queue = q3]
             IN IF ~added.ok
                THEN dir' = [dir EXCEPT !.pc = "raised", !.err = "PANHuntException"]
                ELSE IF child_entry.ChildID = NOSTREAM
                THEN dir' = [dir EXCEPT !.children = children1, !.stack = stack1]
                ELSE IF depth >= MaxRecursion
                THEN dir' = [dir EXCEPT !.pc = "raised", !.err = "RecursionError",
                                        !.children = children1, !.stack = stack1]
                ELSE dir' = [dir EXCEPT
                                !.children = [children1 EXCEPT ![id] = EmptyDict],
                                !.stack = Append(stack1, SetEntryChildrenFrame(dir.entries, id))]
    /\ UNCHANGED <<bth, fat, sub, leaf, pst, pc, fgen, mgen, msg, blk, tc, att, life, perm, pstream, dec>>

\* the queue of the innermost call is empty: the call returns
SetEntryChildrenReturn ==
    /\ dir.pc = "running"
    /\ dir.stack # <<>>
    /\ dir.stack[Len(dir.stack)].child_ids_queue = <<>>
    /\ dir' = [dir EXCEPT !.stack = SubSeq(dir.stack, 1, Len(dir.stack) - 1),
                          !.pc = IF Len(dir.stack) = 1 THEN "done" ELSE "running"]
    /\ UNCHANGED <<bth, fat, sub, leaf, pst, pc, fgen, mgen, msg, blk, tc, att, life, perm, pstream, dec>>

InitDir ==
    /\ InitDirComp
    /\ bth = Idle /\ fat = Idle /\ sub = Idle /\ leaf = Idle /\ pst = Idle /\ pc = Idle /\ fgen = Idle
    /\ mgen = Idle /\ msg = Idle /\ blk = Idle /\ tc = Idle /\ att = Idle /\ life = Idle /\ perm = Idle
    /\ pstream = Idle
    /\ dec = Idle

NextDir ==
    \/ DirectoryInit
    \/ SetEntryChildrenLoop
    \/ SetEntryChildrenReturn

SpecDir == InitDir /\ [][NextDir]_vars

\* the entries reached from entry start through left- and right-sibling links
RECURSIVE SiblingClosure(_, _, _)
SiblingClosure(entries, seen, n) ==
    IF n = 0 THEN seen
    ELSE SiblingClosure(entries,
            seen \cup {l \in DirEntryIds : \E i \in seen :
                          l = entries[i].SiblingID \/ l = entries[i].RightSiblingID},
            n - 1)

ReachableFrom(entries, start) ==
    IF start = NOSTREAM THEN {}
    ELSE SiblingClosure(entries, {start}, Cardinality(DirEntryIds))

\* the number of links by which the traversal from start arrives at entry id
Arrivals(entries, start, id) ==
    Cardinality({<<i, k>> \in ReachableFrom(entries, start) \X {"SiblingID", "RightSiblingID"} :
                    entries[i][k] = id})
    + (IF start = id THEN 1 ELSE 0)

\* two entries reachable under the parent share a name, an entry that the
\* sibling links reach twice included
SharedName(entries, parent) ==
    LET under == ReachableFrom(entries, entries[parent].ChildID)
    IN \/ \E i, j \in under : i # j /\ entries[i].Name = entries[j].Name
       \/ \E i \in under : Arrivals(entries, entries[parent].ChildID, i) > 1

\* the storages of the root's tree
RECURSIVE Storages(_, _, _)
Storages(entries, seen, n) ==
    IF n = 0 THEN seen
    ELSE Storages(entries,
            seen \cup UNION {ReachableFrom(entries, entries[i].ChildID) : i \in seen},
            n - 1)

DirStorages(entries) == Storages(entries, {0}, Cardinality(DirEntryIds))

ChildrenIds(children) == {children[n] : n \in DOMAIN children}

\* what a successful construction leaves in the storages of the root's tree
DirChildrenExact ==
    \A s \in DirStorages(dir.entries) :
        /\ ChildrenIds(dir.children[s]) = ReachableFrom(dir.entries, dir.entries[s].ChildID)
        /\ \A n \in DOMAIN dir.children[s] : dir.entries[dir.children[s][n]].Name = n
        /\ ~SharedName(dir.entries, s)

\* C12: after the construction of the directory has succeeded every storage's
\* children map holds exactly the entries reachable from its ChildID through
\* the sibling links, under pairwise different names; and when two entries
\* reachable under one parent share a name (an entry that a cycle of sibling
\* links revisits included) the construction ends with the domain error.
C12_ChildrenAreTheSiblingClosure ==
    /\ dir.pc = "done" => DirChildrenExact
    /\ /\ dir.pc \in {"done", "raised"}
       /\ \E s \in DirStorages(dir.entries) : SharedName(dir.entries, s)
       => dir.pc = "raised" /\ dir.err = "PANHuntException"

\* ------------------------------------------------------------------
\* Blocks: BID, Block.__init__, NBD.fetch_block and NBD.fetch_all_block_data
\* (pst.py 106-118, 384-477, 506-557).  The BBT is the dict bid -> entry that
\* NBD.__init__ built; the file is given by the block found at each offset.
\* The cb values of the model lie in one 64-byte slot, so that the block size
\* computed from the BBT entry reads the block up to its trailer.
\* ------------------------------------------------------------------

\* the BIDs asked for: 4 and 8 name data blocks, 6 and 10 internal blocks, 5
\* is 4 with bit 0 set, 12 is in no BBT of the model
BlkRequests == {4, 5, 6, 12}

BlkBids == {4, 6, 8, 10}

BlkCbs == {8, 12}

\* offset of the block of each BID of the model's BBTs
BlkOffset(bid) == (bid - 4) \div 2

BlkBBTs ==
    {bbt \in UNION {[S -> [ib : 0..3, cb : BlkCbs]] : S \in SUBSET BlkBids} :
        \A b \in DOMAIN bbt :
            /\ bbt[b].ib = BlkOffset(b)
            /\ b # 4 => bbt[b].cb = 8}

BlkXBlock == [btype |-> 1, cLevel |-> 1, rgbid |-> <<4, 8>>]

\* what the body of the first internal block of the model's files holds
BlkBodies ==
    {BlkXBlock,
     [btype |-> 1, cLevel |-> 1, rgbid |-> <<5, 12>>],
     [btype |-> 1, cLevel |-> 1, rgbid |-> <<6>>],
     [btype |-> 1, cLevel |-> 2, rgbid |-> <<10>>],
     [btype |-> 1, cLevel |-> 2, rgbid |-> <<10, 6>>],
     [btype |-> 1, cLevel |-> 2, rgbid |-> <<10, 10>>],
     [btype |-> 1, cLevel |-> 3, rgbid |-> <<4>>],
     [btype |-> 2, cLevel |-> 0, rgbid |-> <<>>]}

\* the files of the model: at offset o the block written for BID 4 + 2 * o,
\* with the trailer as the file has it; the block of BID 10 is an XBLOCK
\* over the blocks of BIDs 4 and 8, or an XBLOCK that lists BID 6
BlkFiles ==
    {[o \in 0..3 |->
         [cb |-> <<c0, 8, c2, 8>>[o + 1],
          bid |-> <<t0, t1, t2, 10>>[o + 1],
          body |-> IF o = 1 THEN body ELSE IF o = 3 THEN body3 ELSE BlkXBlock,
          data |-> <<"d0", "d1", "d2", "d3">>[o + 1]]] :
        c0 \in BlkCbs, c2 \in BlkCbs,
        t0 \in {4, 5, 8}, t1 \in {6, 8}, t2 \in {8, 4}, body \in BlkBodies,
        body3 \in {BlkXBlock, [btype |-> 1, cLevel |-> 1, rgbid |-> <<6>>]}}

NoBlock == [block_type |-> -1]

\* Block.__init__, the two tests on the trailer (pst.py 415-420)
BlockTrailerErrorNoSize(trailer_bid, trailer_cb, data_size, bid_check) ==
    IF BID(trailer_bid).bid # BID(bid_check).bid THEN "PANHuntException" ELSE "none"

BlockTrailerError(trailer_bid, trailer_cb, data_size, bid_check) ==
    IF BID(trailer_bid).bid # BID(bid_check).bid THEN "PANHuntException"
    ELSE IF data_size # trailer_cb THEN "PANHuntException"
    ELSE "none"

\* Block.__init__ on the block read at the offset; bCryptMethod is Unencoded
Block(payload, data_size, bid_check) ==
    LET trailer == BlockTrailerError(payload.bid, payload.cb, data_size, bid_check)
        head == [cb |-> payload.cb, bid |-> BID(payload.bid).bid]
    IN IF trailer # "none" THEN [err |-> trailer, block |-> NoBlock]
       ELSE IF ~BID(payload.bid).is_internal
       THEN [err |-> "none",
             block |-> head @@ [block_type |-> btypeData, data_block |-> payload.data,
                                rgbid |-> <<>>]]
       ELSE IF payload.body.btype = 1
       THEN IF payload.body.cLevel \in {1, 2}
            THEN [err |-> "none",
                  block |-> head @@ [block_type |-> IF payload.body.cLevel = 1
                                                   THEN btypeXBLOCK ELSE btypeXXBLOCK,
                                     data_block |-> "",
                                     rgbid |-> payload.body.rgbid]]
            ELSE [err |-> "PANHuntException", block |-> NoBlock]
       ELSE IF payload.body.btype = 2
       THEN IF payload.body.cLevel = 0
            THEN [err |-> "none",
                  block |-> head @@ [block_type |-> btypeSLBLOCK, data_block |-> "",
                                     rgbid |-> <<>>]]
            ELSE IF payload.body.cLevel = 1
            THEN [err |-> "none",
                  block |-> head @@ [block_type |-> btypeSIBLOCK, data_block |-> "",
                                     rgbid |-> <<>>]]
            ELSE [err |-> "PANHuntException", block |-> NoBlock]
       ELSE [err |-> "PANHuntException", block |-> NoBlock]

\* NBD.fetch_block
FetchBlock(bbt_entries, file, bid) ==
    IF BID(bid).bid \notin DOMAIN bbt_entries
    THEN [err |-> "PANHuntException", block |-> NoBlock]
    ELSE LET bbt_entry == bbt_entries[BID(bid).bid]
         IN Block(file[bbt_entry.ib], bbt_entry.cb, bid)

InitBlkComp ==
    \E bbt_entries \in BlkBBTs, file \in BlkFiles, bid \in BlkRequests :
        blk = [pc |-> "call", bbt_entries |-> bbt_entries, file |-> file,
               stack |-> <<[op |-> "all", bids |-> <<bid>>]>>,
               data_list |-> <<>>, fetched |-> <<>>, err |-> "none"]

\* the record of one call of fetch_block
Fetched(bid, r) == [bid |-> bid, err |-> r.err, block |-> r.block]

BlkTop == blk.stack[Len(blk.stack)]

BlkPop == SubSeq(blk.stack, 1, Len(blk.stack) - 1)

\* the frames left once the innermost frame has no BID left
RECURSIVE BlkUnwind(_)
BlkUnwind(stack) ==
    IF stack = <<>> THEN stack
    ELSE IF stack[Len(stack)].bids = <<>> THEN BlkUnwind(SubSeq(stack, 1, Len(stack) - 1))
    ELSE stack

BlkContinue(stack) ==
    [blk EXCEPT !.stack = BlkUnwind(stack),
                !.pc = IF BlkUnwind(stack) = <<>> THEN "done" ELSE "running"]

BlkRaise(r, bid) ==
    blk' = [blk EXCEPT !.pc = "raised", !.err = "PANHuntException",
                       !.fetched = Append(blk.fetched, Fetched(bid, r))]

\* fetch_all_block_data(bid) up to its loop: the block is fetched and its
\* type decides what follows
FetchAllBlockData ==
    /\ blk.pc \in {"call", "running"}
    /\ BlkTop.op = "all"
    /\ LET bid == BlkTop.bids[1]
           r == FetchBlock(blk.bbt_entries, blk.file, bid)
           fetched == Append(blk.fetched, Fetched(bid, r))
       IN IF r.err # "none" THEN BlkRaise(r, bid)
          ELSE IF r.block.block_type = btypeData
          THEN blk' = [BlkContinue(BlkPop) EXCEPT
                          !.fetched = fetched,
                          !.data_list = Append(blk.data_list, r.block.data_block)]
          ELSE IF r.block.block_type = btypeXBLOCK
          THEN blk' = [BlkContinue(Append(BlkPop, [op |-> "x", bids |-> r.block.rgbid]))
                          EXCEPT !.fetched = fetched]
          ELSE IF r.block.block_type = btypeXXBLOCK
          THEN blk' = [BlkContinue(Append(BlkPop, [op |-> "xx", bids |-> r.block.rgbid]))
                          EXCEPT !.fetched = fetched]
          ELSE BlkRaise(r, bid)
    /\ UNCHANGED <<bth, fat, sub, leaf, pst, pc, fgen, mgen, msg, dir, tc, att, life, perm, pstream, dec>>

\* one iteration of 'for xbid in block.rgbid' without the test of the type
FetchXBlockItemAnyType ==
    /\ blk.pc = "running"
    /\ BlkTop.op = "x"
    /\ LET xbid == BlkTop.bids[1]
           r == FetchBlock(blk.bbt_entries, blk.file, xbid)
           rest == Append(BlkPop, [op |-> "x", bids |-> Tail(BlkTop.bids)])
       IN IF r.err # "none" THEN BlkRaise(r, xbid)
          ELSE blk' = [BlkContinue(rest) EXCEPT
                          !.fetched = Append(blk.fetched, Fetched(xbid, r)),
                          !.data_list = Append(blk.data_list, r.block.data_block)]
    /\ UNCHANGED <<bth, fat, sub, leaf, pst, pc, fgen, mgen, msg, dir, tc, att, life, perm, pstream, dec>>

\* one iteration of 'for xbid in block.rgbid'
FetchXBlockItem ==
    /\ blk.pc = "running"
    /\ BlkTop.op = "x"
    /\ LET xbid == BlkTop.bids[1]
           r == FetchBlock(blk.bbt_entries, blk.file, xbid)
           rest == Append(BlkPop, [op |-> "x", bids |-> Tail(BlkTop.bids)])
       IN IF r.err # "none" \/ r.block.block_type # btypeData THEN BlkRaise(r, xbid)
          ELSE blk' = [BlkContinue(rest) EXCEPT
                          !.fetched = Append(blk.fetched, Fetched(xbid, r)),
                          !.data_list = Append(blk.data_list, r.block.data_block)]
    /\ UNCHANGED <<bth, fat, sub, leaf, pst, pc, fgen, mgen, msg, dir, tc, att, life, perm, pstream, dec>>

\* one iteration of 'for xxbid in block.rgbid' without the test of the type
FetchXXBlockItemAnyType ==
    /\ blk.pc = "running"
    /\ BlkTop.op = "xx"
    /\ LET xxbid == BlkTop.bids[1]
           r == FetchBlock(blk.bbt_entries, blk.file, xxbid)
           rest == Append(BlkPop, [op |-> "xx", bids |-> Tail(BlkTop.bids)])
       IN IF r.err # "none" THEN BlkRaise(r, xxbid)
          ELSE blk' = [blk EXCEPT
                          !.pc = "running",
                          !.fetched = Append(blk.fetched, Fetched(xxbid, r)),
                          !.stack = Append(rest, [op |-> "all", bids |-> <<xxbid>>])]
    /\ UNCHANGED <<bth, fat, sub, leaf, pst, pc, fgen, mgen, msg, dir, tc, att, life, perm, pstream, dec>>

\* one iteration of 'for xxbid in block.rgbid', up to the nested call
FetchXXBlockItem ==
    /\ blk.pc = "running"
    /\ BlkTop.op = "xx"
    /\ LET xxbid == BlkTop.bids[1]
           r == FetchBlock(blk.bbt_entries, blk.file, xxbid)
           rest == Append(BlkPop, [op |-> "xx", bids |-> Tail(BlkTop.bids)])
       IN IF r.err # "none" \/ r.block.block_type # btypeXBLOCK THEN BlkRaise(r, xxbid)
          ELSE blk' = [blk EXCEPT
                          !.pc = "running",
                          !.fetched = Append(blk.fetched, Fetched(xxbid, r)),
                          !.stack = Append(rest, [op |-> "all", bids |-> <<xxbid>>])]
    /\ UNCHANGED <<bth, fat, sub, leaf, pst, pc, fgen, mgen, msg, dir, tc, att, life, perm, pstream, dec>>

InitBlk ==
    /\ InitBlkComp
    /\ bth = Idle /\ fat = Idle /\ sub = Idle /\ leaf = Idle /\ pst = Idle /\ pc = Idle /\ fgen = Idle
    /\ mgen = Idle /\ msg = Idle /\ dir = Idle /\ tc = Idle /\ att = Idle /\ life = Idle /\ perm = Idle
    /\ pstream = Idle
    /\ dec = Idle

NextBlk ==
    \/ FetchAllBlockData
    \/ FetchXBlockItem
    \/ FetchXXBlockItem

SpecBlk == InitBlk /\ [][NextBlk]_vars

\* the trailer that the file holds for the BID, where the BBT has the BID
BlkTrailer(bid) == blk.file[blk.bbt_entries[BID(bid).bid].ib]

BlkMismatch(bid) ==
    \/ BID(bid).bid \notin DOMAIN blk.bbt_entries
    \/ BID(BlkTrailer(bid).bid).bid # BID(bid).bid
    \/ BlkTrailer(bid).cb # blk.bbt_entries[BID(bid).bid].cb

\* C13: every Block that fetch_block returns, for the BID asked for or for a
\* BID listed in an XBLOCK or XXBLOCK, has the cb of the BBT entry of the BID
\* and the BID asked for (bit 0 cleared) in its trailer; a BID that is not in
\* the BBT, a trailer with another BID or another cb raise the domain error,
\* and the data of that block is not returned.
C13_FetchedBlockMatchesBBT ==
    \A i \in 1..Len(blk.fetched) :
        LET f == blk.fetched[i]
        IN /\ f.block # NoBlock =>
                 /\ BID(f.bid).bid \in DOMAIN blk.bbt_entries
                 /\ f.block.cb = blk.bbt_entries[BID(f.bid).bid].cb
                 /\ f.block.cb = BlkTrailer(f.bid).cb
                 /\ f.block.bid = BID(f.bid).bid
                 /\ BID(BlkTrailer(f.bid).bid).bid = BID(f.bid).bid
           /\ BlkMismatch(f.bid) =>
                 /\ f.block = NoBlock /\ f.err = "PANHuntException"
                 /\ i = Len(blk.fetched)
                 /\ blk.pc = "raised" /\ blk.err = "PANHuntException"

\* an XBLOCK was fetched, its first data block was returned, and the second
\* BID of its list has a trailer whose cb is not the cb of the BBT entry
C13_Witness ==
    /\ blk.pc = "raised"
    /\ Len(blk.fetched) = 3
    /\ blk.fetched[1].block # NoBlock /\ blk.fetched[1].block.block_type = btypeXBLOCK
    /\ blk.fetched[2].block # NoBlock /\ blk.fetched[2].bid = 4
    /\ blk.fetched[3].bid = 8 /\ blk.fetched[3].block = NoBlock
    /\ 8 \in DOMAIN blk.bbt_entries
    /\ BID(BlkTrailer(8).bid).bid = 8
    /\ BlkTrailer(8).cb # blk.bbt_entries[8].cb

\* ------------------------------------------------------------------
\* Table Context rows: TC.setup_row_matrix and TC.get_row_cell_value
\* (pst.py 1178-1232).  A row of the model is 14 bytes: dwRowID (0-3), two
\* 4-byte cells (4-7, 8-11) and the two bytes of the cell existence bitmap
\* (rgib[TCI_1b] = 12); both rows lie in the first block of the row matrix.
\* ------------------------------------------------------------------

TCRowSize == 4 + 4 + 4 + 2

TCI_1b_Offset == 4 + 4 + 4

TCOLDESC(wPropType, wPropId, ibData, cbData, iBit) ==
    [wPropType |-> wPropType, wPropId |-> wPropId, ibData |-> ibData,
     cbData |-> cbData, iBit |-> iBit]

TCPropTypes == {3, 6, 1, 4116}

TCBits == {0, 1, 9, 16}

\* the column lists of the model: one or two columns
TCColumnLists ==
    {<<TCOLDESC(t, 100, 4, 4, b)>> : t \in TCPropTypes, b \in TCBits}
    \cup {<<TCOLDESC(t1, 100, 4, 4, b1), TCOLDESC(t2, id2, 8, 4, b2)>> :
             t1 \in TCPropTypes, b1 \in TCBits, t2 \in TCPropTypes, b2 \in TCBits,
             id2 \in {100, 101}}

\* the first rows of the model: the cells hold an integer, the HID of heap
\* allocation 1, the HID of an allocation the heap has not, or a NID that is no HID
TCFirstRows ==
    {<<7, 0, 0, 0>> \o c1 \o c2 \o <<ceb0, ceb1>> :
        c1 \in {<<5, 0, 0, 0>>, <<32, 0, 0, 0>>, <<64, 0, 0, 0>>},
        c2 \in {<<32, 0, 0, 0>>, <<9, 0, 0, 0>>},
        ceb0 \in {0, 128, 64, 192, 2}, ceb1 \in {0, 64}}

TCSecondRow == <<8, 0, 0, 0, 32, 0, 0, 0, 32, 0, 0, 0, 128, 0>>

\* the heap of the table's node: one allocation of eight bytes; no sub-nodes
TCHeapNode == [heap |-> <<(<<1, 0, 0, 0, 0, 0, 0, 0>>)>>, block_data |-> EmptyDict]

\* rgbCEB[iBit // 8] & (1 << (7 - (iBit % 8))) != 0
is_fCEB(rgbCEB, iBit) ==
    (rgbCEB[iBit \div 8 + 1] \div Pow(2, 7 - (iBit % 8))) % 2 = 1

\* TC.get_row_cell_value for a cell that has data bytes
get_row_cell_value(hn, data_bytes, tcoldesc) ==
    LET ptype == ptypes(PTypeEnum(tcoldesc.wPropType))
    IN IF ~ptype.is_variable /\ ~ptype.is_multi
       THEN IF ptype.byte_count <= 8
            THEN PstPTypeWrapperValue(ptype, data_bytes)
            ELSE LET fixed == HNGetHidData(hn, HID(data_bytes))
                 IN IF fixed.err # "none" THEN fixed
                    ELSE PstPTypeWrapperValue(ptype, fixed.value)
       ELSE IF nidType(unpack_integer(data_bytes)) = NID_TYPE_HID
       THEN LET heap == HNGetHidData(hn, HID(data_bytes))
            IN IF heap.err # "none" THEN heap
               ELSE PstPTypeWrapperValue(ptype, heap.value)
       ELSE Raised("PANHuntException")

InitTCComp ==
    \E rgTCOLDESC \in TCColumnLists, row \in TCFirstRows :
        tc = [pc |-> "rows", hn |-> TCHeapNode, rgTCOLDESC |-> rgTCOLDESC,
              row_matrix_data |-> <<row \o TCSecondRow>>, rows |-> 2,
              irow |-> 0, icol |-> 1, rowvals |-> EmptyDict, cells |-> <<>>,
              RowMatrix |-> EmptyDict, err |-> "none"]

TCRowBytes(irow) == Slice(tc.row_matrix_data[1], irow * TCRowSize, (irow + 1) * TCRowSize)

\* one iteration of 'for tcoldesc in self.rgTCOLDESC'
TCRowCell ==
    /\ tc.pc = "rows"
    /\ tc.irow < tc.rows
    /\ tc.icol <= Len(tc.rgTCOLDESC)
    /\ LET row_bytes == TCRowBytes(tc.irow)
           rgbCEB == Slice(row_bytes, TCI_1b_Offset, Len(row_bytes))
           tcoldesc == tc.rgTCOLDESC[tc.icol]
       IN IF tcoldesc.iBit \div 8 >= Len(rgbCEB)
          THEN tc' = [tc EXCEPT !.pc = "raised", !.err = "IndexError"]
          ELSE LET present == is_fCEB(rgbCEB, tcoldesc.iBit)
                   data_bytes == Slice(row_bytes, tcoldesc.ibData,
                                       tcoldesc.ibData + tcoldesc.cbData)
                   cell == IF present THEN get_row_cell_value(tc.hn, data_bytes, tcoldesc)
                           ELSE Returned(NoneValue)
               IN IF tcoldesc.wPropId \in DOMAIN tc.rowvals
                  THEN tc' = [tc EXCEPT !.pc = "raised", !.err = "PANHuntException"]
                  ELSE IF cell.err # "none"
                  THEN tc' = [tc EXCEPT !.pc = "raised", !.err = cell.err]
                  ELSE tc' = [tc EXCEPT
                                 !.rowvals = DictSet(tc.rowvals, tcoldesc.wPropId, cell.value),
                                 !.icol = tc.icol + 1,
                                 !.cells = Append(tc.cells,
                                              [irow |-> tc.irow, icol |-> tc.icol,
                                               decoded |-> present,
                                               data_bytes |-> IF present THEN data_bytes ELSE <<>>,
                                               value |-> cell.value])]
    /\ UNCHANGED <<bth, fat, sub, leaf, pst, pc, fgen, mgen, msg, dir, blk, att, life, perm, pstream, dec>>

\* self.RowMatrix[dwRowID] = rowvals, and the next row
TCRowDone ==
    /\ tc.pc = "rows"
    /\ tc.irow < tc.rows
    /\ tc.icol > Len(tc.rgTCOLDESC)
    /\ LET dwRowID == unpack_integer(Slice(TCRowBytes(tc.irow), 0, 4))
       IN tc' = [tc EXCEPT !.RowMatrix = DictSet(tc.RowMatrix, dwRowID, tc.rowvals),
                           !.rowvals = EmptyDict, !.icol = 1, !.irow = tc.irow + 1,
                           !.pc = IF tc.irow + 1 = tc.rows THEN "done" ELSE "rows"]
    /\ UNCHANGED <<bth, fat, sub, leaf, pst, pc, fgen, mgen, msg, dir, blk, att, life, perm, pstream, dec>>

InitTC ==
    /\ InitTCComp
    /\ bth = Idle /\ fat = Idle /\ sub = Idle /\ leaf = Idle /\ pst = Idle /\ pc = Idle /\ fgen = Idle
    /\ mgen = Idle /\ msg = Idle /\ dir = Idle /\ blk = Idle /\ att = Idle /\ life = Idle /\ perm = Idle
    /\ pstream = Idle
    /\ dec = Idle

NextTC ==
    \/ TCRowCell
    \/ TCRowDone

SpecTC == InitTC /\ [][NextTC]_vars

\* bit iBit of the bitmap of row irow, the leftmost bit of a byte first
TCBitSet(irow, iBit) ==
    LET byte == TCRowBytes(irow)[TCI_1b_Offset + iBit \div 8 + 1]
    IN (byte \div Pow(2, 7 - (iBit % 8))) % 2 = 1

\* what the bitmap alone decides: a cell whose bit is clear is null and is not
\* decoded, a cell whose bit is set is decoded from its bytes of the row
TCBitmapDecides ==
    \A i \in 1..Len(tc.cells) :
        LET c == tc.cells[i]
            tcoldesc == tc.rgTCOLDESC[c.icol]
            set == TCBitSet(c.irow, tcoldesc.iBit)
        IN /\ ~set => c.value = NoneValue /\ ~c.decoded
           /\ set => /\ c.decoded
                     /\ c.data_bytes = Slice(TCRowBytes(c.irow), tcoldesc.ibData,
                                             tcoldesc.ibData + tcoldesc.cbData)

\* C14: for every row and every column the decoded cell is null exactly when
\* bit iBit of the row's cell existence bitmap is clear, the leftmost bit of a
\* byte being bit 0; a cell whose bit is set is decoded from the row bytes
\* ibData .. ibData + cbData, and a cell whose bit is clear is never decoded.
C14_CellNullIffBitClear ==
    /\ TCBitmapDecides
    /\ \A i \in 1..Len(tc.cells) :
          tc.cells[i].value = NoneValue
             => ~TCBitSet(tc.cells[i].irow, tc.rgTCOLDESC[tc.cells[i].icol].iBit)

\* ------------------------------------------------------------------
\* Folder.submessages from the row index of the contents table, and the
\* generator over them: TC.setup_row_index (pst.py 1131-1142),
\* Folder.__get_submessages (1482-1503), PST.message_generator (2502-2513).
\* The row index BTH delivers records (dwRowID, dwRowIndex) in key order;
\* dwRowID is the NID of the row's message.  Every row is in the row matrix.
\* ------------------------------------------------------------------

TCROWID(nid, dwRowIndex) == [nid |-> nid, dwRowID |-> nid, dwRowIndex |-> dwRowIndex]

\* TC.setup_row_index: self.RowIndex[tcrowid.dwRowIndex] = tcrowid, record
\* after record
RECURSIVE setup_row_index(_, _)
setup_row_index(bth_data_list, RowIndex) ==
    IF bth_data_list = <<>> THEN RowIndex
    ELSE setup_row_index(Tail(bth_data_list),
                         DictSet(RowIndex, Head(bth_data_list).dwRowIndex, Head(bth_data_list)))

\* range(len(self.tc_contents.RowIndex)), counted down
RowIndexRangeDescending(n) == [i \in 1..n |-> n - i]

\* range(len(self.tc_contents.RowIndex))
RowIndexRange(n) == [i \in 1..n |-> i - 1]

\* the loop of Folder.__get_submessages over the row indices still to visit
RECURSIVE SubmessagesOf(_, _)
SubmessagesOf(RowIndex, indices) ==
    IF indices = <<>> THEN <<>>
    ELSE (IF Head(indices) \in DOMAIN RowIndex
          THEN <<[nid |-> RowIndex[Head(indices)].nid, pc_ok |-> TRUE]>>
          ELSE <<>>)
         \o SubmessagesOf(RowIndex, Tail(indices))

get_submessages(RowIndex) ==
    SubmessagesOf(RowIndex, RowIndexRange(Cardinality(DOMAIN RowIndex)))

\* a folder whose contents table has up to MaxMessages row index records,
\* with pairwise different NIDs, and message_generator(folder) called
InitFolderMessagesComp ==
    \E n \in 0..MaxMessages :
      \E nids \in [1..n -> MessageNids], indices \in [1..n -> 0..MaxMessages] :
        /\ \A i, j \in 1..n : i # j => nids[i] # nids[j]
        /\ LET RowIndex == setup_row_index([i \in 1..n |-> TCROWID(nids[i], indices[i])],
                                           EmptyDict)
           IN mgen = [pc |-> "start",
                      submessages |-> get_submessages(RowIndex),
                      index |-> 0, yielded |-> <<>>, err |-> "none",
                      RowIndex |-> RowIndex]

InitFolderMessages ==
    /\ InitFolderMessagesComp
    /\ bth = Idle /\ fat = Idle /\ sub = Idle /\ leaf = Idle /\ pst = Idle /\ pc = Idle /\ fgen = Idle
    /\ msg = Idle /\ dir = Idle /\ blk = Idle /\ tc = Idle /\ att = Idle /\ life = Idle /\ perm = Idle
    /\ pstream = Idle
    /\ dec = Idle

SpecFolderMessages == InitFolderMessages /\ [][NextMGen]_vars

\* the row index under which the contents table has the NID
RowOfNid(RowIndex, nid) == CHOOSE k \in DOMAIN RowIndex : RowIndex[k].nid = nid

\* C15: Folder.submessages lists the rows of the contents table in ascending
\* row index, row k of a table with the row indices 0, 1, 2, ... being the
\* k-th submessage, and message_generator yields the Messages of the
\* submessages in that order: the k-th Message pulled has the NID that is the
\* row index key of row k.
C15_MessagesInRowIndexOrder ==
    LET RowIndex == mgen.RowIndex
        n == Cardinality(DOMAIN RowIndex)
        sm == mgen.submessages
    IN /\ \A i \in 1..Len(sm) : \E k \in DOMAIN RowIndex : RowIndex[k].nid = sm[i].nid
       /\ \A i, j \in 1..Len(sm) :
             i < j => RowOfNid(RowIndex, sm[i].nid) < RowOfNid(RowIndex, sm[j].nid)
       /\ DOMAIN RowIndex = 0..(n - 1) =>
             /\ Len(sm) = n
             /\ \A k \in 1..n : sm[k].nid = RowIndex[k - 1].dwRowID
             /\ \A k \in 1..Len(mgen.yielded) : mgen.yielded[k] = RowIndex[k - 1].dwRowID
       /\ Len(mgen.yielded) <= Len(sm)
       /\ \A k \in 1..Len(mgen.yielded) : mgen.yielded[k] = sm[k].nid
       /\ mgen.pc = "done" /\ mgen.err = "none" => Len(mgen.yielded) = Len(sm)

\* three rows whose row index order is not the order of their NIDs, and the
\* generator pulled to its end
C15_Witness ==
    /\ mgen.pc = "done" /\ mgen.err = "none"
    /\ DOMAIN mgen.RowIndex = {0, 1, 2}
    /\ mgen.RowIndex[0].nid > mgen.RowIndex[1].nid
    /\ Len(mgen.yielded) = 3
    /\ mgen.yielded[1] = mgen.RowIndex[0].dwRowID
    /\ mgen.yielded[3] = mgen.RowIndex[2].dwRowID

\* ------------------------------------------------------------------
\* Attachment file names: Attachment.__init__ of the PST decoder (pst.py
\* 1809-1845) and of the compound-file decoder (msmsg.py 656-673).  The
\* property set is the dict of the attachment's PC or property stream; file
\* names are sequences of characters.
\* ------------------------------------------------------------------

AttachNames == {<<>>, <<"a">>, <<"d", "/", "a">>, <<"d", "/">>}

AttachMethods == {1, 5}

AttachPropIds ==
    {"PidTagDisplayName", "PidTagAttachMethod", "PidTagAttachFilename",
     "PidTagAttachLongFilename"}

\* the property sets of the model: any of the four properties may be absent
AttachPropertySets ==
    UNION {{[p \in S |-> [value |-> IF p = "PidTagAttachMethod" THEN <<method>>
                                   ELSE IF p = "PidTagAttachFilename" THEN short
                                   ELSE IF p = "PidTagAttachLongFilename" THEN long
                                   ELSE <<"n">>]] :
               method \in AttachMethods, short \in AttachNames, long \in AttachNames} :
           S \in SUBSET AttachPropIds}

\* panutils.as_str of a value that is a string
as_str(value) == value

\* os.path.basename: what follows the last separator
RECURSIVE basename(_)
basename(p) ==
    IF p = <<>> THEN <<>>
    ELSE IF p[Len(p)] = "/" THEN <<>>
    ELSE Append(basename(SubSeq(p, 1, Len(p) - 1)), p[Len(p)])

NamedFile(name) == [synthetic |-> "no", name |-> name, method |-> 0]

\* '[NoFilename_Method%s]' % AttachMethod
NoFilename(AttachMethod) == [synthetic |-> "yes", name |-> <<>>, method |-> AttachMethod]

\* the last lines that set Filename, the same in both decoders; attrs are the
\* attributes assigned so far, and reading another one is an AttributeError
SetFilename(attrs) ==
    IF "AttachLongFilename" \notin DOMAIN attrs THEN Raised("AttributeError")
    ELSE IF attrs["AttachLongFilename"] # <<>>
    THEN Returned(NamedFile(basename(attrs["AttachLongFilename"])))
    ELSE IF "AttachFilename" \notin DOMAIN attrs THEN Raised("AttributeError")
    ELSE IF attrs["AttachFilename"] # <<>>
    THEN Returned(NamedFile(basename(attrs["AttachFilename"])))
    ELSE IF "AttachMethod" \notin DOMAIN attrs THEN Raised("AttributeError")
    ELSE Returned(NoFilename(attrs["AttachMethod"][1]))

\* pc.get_raw_data(id) followed by 'if x: self.Attr = as_str(x.value)'
PSTAttr(attrs, properties, id, attr) ==
    IF id \in DOMAIN properties THEN DictSet(attrs, attr, as_str(properties[id].value))
    ELSE attrs

InitAttComp ==
    \E properties \in AttachPropertySets, decoder \in {"pst", "msmsg"} :
        att = [pc |-> "init", decoder |-> decoder, properties |-> properties,
               attrs |-> EmptyDict, Filename |-> NamedFile(<<>>), err |-> "none"]

\* pst.py Attachment.__init__ up to Filename
PSTAttachmentInit ==
    /\ att.pc = "init" /\ att.decoder = "pst"
    /\ LET a1 == PSTAttr(EmptyDict, att.properties, "PidTagDisplayName", "DisplayName")
           a2 == PSTAttr(a1, att.properties, "PidTagAttachMethod", "AttachMethod")
           a3 == PSTAttr(a2, att.properties, "PidTagAttachFilename", "AttachFilename")
           a4 == PSTAttr(a3, att.properties, "PidTagAttachLongFilename", "AttachLongFilename")
           f == SetFilename(a4)
       IN IF f.err # "none"
          THEN att' = [att EXCEPT !.pc = "raised", !.attrs = a4, !.err = f.err]
          ELSE att' = [att EXCEPT !.pc = "done", !.attrs = a4, !.Filename = f.value]
    /\ UNCHANGED <<bth, fat, sub, leaf, pst, pc, fgen, mgen, msg, dir, blk, tc, life, perm, pstream, dec>>

\* prop_stream.get_value(id).value: get_value returns None for an absent
\* property, and None has no attribute value
RECURSIVE MsgAttrs(_, _, _)
MsgAttrs(attrs, properties, todo) ==
    IF todo = <<>> THEN Returned(attrs)
    ELSE IF Head(todo)[1] \notin DOMAIN properties THEN Raised("AttributeError")
    ELSE MsgAttrs(DictSet(attrs, Head(todo)[2], as_str(properties[Head(todo)[1]].value)),
                  properties, Tail(todo))

\* msmsg.py Attachment.__init__ up to Filename
MsgAttachmentInit ==
    /\ att.pc = "init" /\ att.decoder = "msmsg"
    /\ LET a == MsgAttrs(EmptyDict, att.properties,
                         << <<"PidTagDisplayName", "DisplayName">>,
                            <<"PidTagAttachMethod", "AttachMethod">>,
                            <<"PidTagAttachFilename", "AttachFilename">>,
                            <<"PidTagAttachLongFilename", "AttachLongFilename">> >>)
           f == IF a.err # "none" THEN a ELSE SetFilename(a.value)
       IN IF f.err # "none"
          THEN att' = [att EXCEPT !.pc = "raised", !.err = f.err]
          ELSE att' = [att EXCEPT !.pc = "done", !.attrs = a.value, !.Filename = f.value]
    /\ UNCHANGED <<bth, fat, sub, leaf, pst, pc, fgen, mgen, msg, dir, blk, tc, life, perm, pstream, dec>>

InitAtt ==
    /\ InitAttComp
    /\ bth = Idle /\ fat = Idle /\ sub = Idle /\ leaf = Idle /\ pst = Idle /\ pc = Idle /\ fgen = Idle
    /\ mgen = Idle /\ msg = Idle /\ dir = Idle /\ blk = Idle /\ tc = Idle /\ life = Idle /\ perm = Idle
    /\ pstream = Idle
    /\ dec = Idle

NextAtt ==
    \/ PSTAttachmentInit
    \/ MsgAttachmentInit

SpecAtt == InitAtt /\ [][NextAtt]_vars

\* the property is present and its value is not empty
AttachHas(properties, id) == id \in DOMAIN properties /\ properties[id].value # <<>>

\* C16: the Filename of an attachment is the basename of the long file name
\* when that property is present and not empty, else the basename of the 8.3
\* name when that is present and not empty, else '[NoFilename_MethodN]' with
\* the attach method N; an absent long or 8.3 file name leads to the next of
\* these and never to an error, in the PST and in the compound-file decoder.
C16_FilenameFallsBack ==
    /\ att.pc # "init" /\ "PidTagDisplayName" \in DOMAIN att.properties
       /\ "PidTagAttachMethod" \in DOMAIN att.properties
       => /\ att.pc = "done" /\ att.err = "none"
          /\ att.Filename =
                IF AttachHas(att.properties, "PidTagAttachLongFilename")
                THEN NamedFile(basename(att.properties["PidTagAttachLongFilename"].value))
                ELSE IF AttachHas(att.properties, "PidTagAttachFilename")
                THEN NamedFile(basename(att.properties["PidTagAttachFilename"].value))
                ELSE NoFilename(att.properties["PidTagAttachMethod"].value[1])

\* ------------------------------------------------------------------
\* The file descriptor of an opened PST: PST.__init__ has ended normally
\* (pst.py 2452-2476), and the consumer pulls from folder_generator and
\* message_generator, closes or drops generators, asks for counts and the
\* status, and calls PST.close() (2478-2513, 2565-2591).  Every access to the
\* file goes through self.fd, opened with mode 'rb', as fd.seek(offset)
\* followed by fd.read(n) (pst.py 503-504, 529-530).
\* ------------------------------------------------------------------

\* the number of consumer operations in a run of the model
MaxOps == 4

LifeFiles == {<<0, 0>>, <<0, 1>>, <<1, 0>>, <<1, 1>>}

\* fd.seek(offset); fd.read(1): the position afterwards, or the ValueError of
\* an operation on a closed file
FdSeekRead(fd, file, offset) ==
    IF fd = "closed" THEN Raised("ValueError")
    ELSE Returned([pos |-> Min(offset + 1, Len(file)), data |-> Slice(file, offset, offset + 1)])

\* what the handling of GeneratorExit in a generator does to the descriptor,
\* were the generator to close it
GeneratorExitClosesFd(fd) == "closed"

\* what the handling of GeneratorExit in a generator does to the descriptor:
\* 'except GeneratorExit: pass / finally: pass', and nothing in
\* folder_generator
GeneratorExitFd(fd) == fd

InitLifeComp ==
    \E file \in LifeFiles :
        life = [pc |-> "opened", fd |-> "open", file |-> file, written |-> file,
                pos |-> 0, fgen |-> "none", mgen |-> "none",
                ops |-> 0, close_called |-> FALSE, err |-> "none"]

\* next() on a generator g: the decoding of the next folder or message reads
\* blocks, then the generator yields, ends, or lets an error escape
LifeGeneratorPull ==
    /\ life.ops < MaxOps
    /\ \E g \in {"fgen", "mgen"}, offset \in 0..1, outcome \in {"suspended", "done", "raised"} :
          /\ life[g] \in {"none", "suspended"}
          /\ g = "mgen" => life.fgen # "none"
          /\ LET r == FdSeekRead(life.fd, life.file, offset)
             IN IF r.err # "none"
                THEN life' = [life EXCEPT ![g] = "raised", !.err = r.err, !.ops = @ + 1]
                ELSE life' = [life EXCEPT ![g] = outcome, !.pos = r.value.pos,
                                          !.err = IF outcome = "raised" THEN "PANHuntException"
                                                  ELSE life.err,
                                          !.ops = @ + 1]
    /\ UNCHANGED <<bth, fat, sub, leaf, pst, pc, fgen, mgen, msg, dir, blk, tc, att, perm, pstream, dec>>

\* close() on a suspended generator, or its collection when the consumer
\* drops it: GeneratorExit is raised at the yield
LifeGeneratorExit ==
    /\ life.ops < MaxOps
    /\ \E g \in {"fgen", "mgen"} :
          /\ life[g] = "suspended"
          /\ life' = [life EXCEPT ![g] = "closed", !.fd = GeneratorExitFd(life.fd),
                                  !.ops = @ + 1]
    /\ UNCHANGED <<bth, fat, sub, leaf, pst, pc, fgen, mgen, msg, dir, blk, tc, att, perm, pstream, dec>>

\* get_total_message_count / get_total_attachment_count: a folder_generator
\* of their own, run to its end
LifeCount ==
    /\ life.ops < MaxOps
    /\ \E offset \in 0..1 :
          LET r == FdSeekRead(life.fd, life.file, offset)
          IN IF r.err # "none"
             THEN life' = [life EXCEPT !.err = r.err, !.ops = @ + 1]
             ELSE life' = [life EXCEPT !.pos = r.value.pos, !.ops = @ + 1]
    /\ UNCHANGED <<bth, fat, sub, leaf, pst, pc, fgen, mgen, msg, dir, blk, tc, att, perm, pstream, dec>>

\* get_pst_status: built from what PST.__init__ has decoded
LifeStatus ==
    /\ life.ops < MaxOps
    /\ life' = [life EXCEPT !.ops = @ + 1]
    /\ UNCHANGED <<bth, fat, sub, leaf, pst, pc, fgen, mgen, msg, dir, blk, tc, att, perm, pstream, dec>>

\* PST.close(): self.fd.close()
PSTClose ==
    /\ life.ops < MaxOps
    /\ life' = [life EXCEPT !.fd = "closed", !.pc = "closed", !.close_called = TRUE,
                            !.ops = @ + 1]
    /\ UNCHANGED <<bth, fat, sub, leaf, pst, pc, fgen, mgen, msg, dir, blk, tc, att, perm, pstream, dec>>

InitLife ==
    /\ InitLifeComp
    /\ bth = Idle /\ fat = Idle /\ sub = Idle /\ leaf = Idle /\ pst = Idle /\ pc = Idle /\ fgen = Idle
    /\ mgen = Idle /\ msg = Idle /\ dir = Idle /\ blk = Idle /\ tc = Idle /\ att = Idle /\ perm = Idle
    /\ pstream = Idle
    /\ dec = Idle

NextLife ==
    \/ LifeGeneratorPull
    \/ LifeGeneratorExit
    \/ LifeCount
    \/ LifeStatus
    \/ PSTClose

SpecLife == InitLife /\ [][NextLife]_vars

\* C18: on an opened PST, whatever generators are pulled, closed or dropped
\* before their end and whatever counts or status are asked for, the file
\* descriptor is open and the bytes of the file are those it had when it was
\* opened; the descriptor is closed only once PST.close() has been called.
C18_FdOpenUntilClose ==
    /\ life.file = life.written
    /\ ~life.close_called => life.fd = "open"
    /\ life.fd = "closed" => life.close_called

\* a folder generator closed before its end, messages pulled, a count asked
\* for, and the descriptor still open
C18_Witness ==
    /\ life.fgen = "closed"
    /\ life.mgen \in {"suspended", "raised"}
    /\ life.ops = MaxOps
    /\ life.pos = 2
    /\ life.fd = "open"
    /\ ~life.close_called

\* ------------------------------------------------------------------
\* NDB_CRYPT_PERMUTE: the substitution table of Block (pst.py 348-358) and
\* the decoding of an external block's data with it (pst.py 427-430).
\* ------------------------------------------------------------------

\* the longest data block of the model
MaxCryptLen == 2

mpbbCryptFrom512 ==
    <<71, 241, 180, 230, 11, 106, 114, 72, 133, 78, 158, 235, 226, 248, 148,
      83, 224, 187, 160, 2, 232, 90, 9, 171, 219, 227, 186, 198, 124, 195,
      16, 221, 57, 5, 150, 48, 245, 55, 96, 130, 140, 201, 19, 74, 107, 29,
      243, 251, 143, 38, 151, 202, 145, 23, 1, 196, 50, 45, 110, 49, 149,
      255, 217, 35, 209, 0, 94, 121, 220, 68, 59, 26, 40, 197, 97, 87, 32,
      144, 61, 131, 185, 67, 190, 103, 210, 70, 66, 118, 192, 109, 91, 126,
      178, 15, 22, 41, 60, 169, 3, 84, 13, 218, 93, 223, 246, 183, 199, 98,
      205, 141, 6, 211, 105, 92, 134, 214, 20, 247, 165, 102, 117, 172, 177,
      233, 69, 33, 112, 12, 135, 159, 116, 164, 34, 76, 111, 191, 31, 86,
      170, 46, 179, 120, 51, 80, 176, 163, 146, 188, 207, 25, 28, 167, 99,
      203, 30, 77, 62, 75, 27, 155, 79, 231, 240, 238, 173, 58, 181, 89, 4,
      234, 64, 85, 37, 81, 229, 122, 137, 56, 104, 82, 123, 252, 39, 174,
      215, 189, 250, 7, 244, 204, 142, 95, 239, 53, 156, 132, 43, 21, 213,
      119, 52, 73, 182, 18, 10, 127, 113, 136, 253, 157, 24, 65, 125, 147,
      216, 88, 44, 206, 254, 36, 175, 222, 184, 54, 200, 161, 128, 166, 153,
      152, 168, 47, 14, 129, 101, 115, 228, 194, 162, 138, 212, 225, 17,
      208, 8, 139, 42, 242, 237, 154, 100, 63, 193, 108, 249, 236>>

\* decrypt_table, with the first two bytes given the same image
decrypt_table_collapsed(byte) == mpbbCryptFrom512[IF byte = 0 THEN 2 ELSE byte + 1]

\* decrypt_table = bytes.maketrans(bytes(range(256)), bytes(mpbbCryptFrom512)):
\* the image of one byte
decrypt_table(byte) == mpbbCryptFrom512[byte + 1]

\* payload[:data_size].translate(decrypt_table)
translate(payload) == [i \in 1..Len(payload) |-> decrypt_table(payload[i])]

\* the inverse of the substitution: a byte that the table sends to b
InverseByte(b) ==
    IF \E x \in 0..255 : decrypt_table(x) = b
    THEN CHOOSE x \in 0..255 : decrypt_table(x) = b
    ELSE b

\* the data blocks of the model: any first byte, then bytes 0 and 255
CryptPayloads ==
    {<<>>} \cup
    UNION {{<<b>> \o rest : b \in 0..255, rest \in [1..n -> {0, 255}]} :
              n \in 0..(MaxCryptLen - 1)}

InitPermComp ==
    \E payload \in CryptPayloads :
        perm = [pc |-> "stored", payload |-> payload, data_block |-> <<>>,
                encoded |-> <<>>]

\* Block.__init__ of an external block under NDB_CRYPT_PERMUTE
BlockDecrypt ==
    /\ perm.pc = "stored"
    /\ perm' = [perm EXCEPT !.pc = "decoded", !.data_block = translate(perm.payload)]
    /\ UNCHANGED <<bth, fat, sub, leaf, pst, pc, fgen, mgen, msg, dir, blk, tc, att, life, pstream, dec>>

\* the decoded data sent through the inverse substitution
ReEncode ==
    /\ perm.pc = "decoded"
    /\ perm' = [perm EXCEPT !.pc = "reencoded",
                            !.encoded = [i \in 1..Len(perm.data_block) |->
                                            InverseByte(perm.data_block[i])]]
    /\ UNCHANGED <<bth, fat, sub, leaf, pst, pc, fgen, mgen, msg, dir, blk, tc, att, life, pstream, dec>>

InitPerm ==
    /\ InitPermComp
    /\ bth = Idle /\ fat = Idle /\ sub = Idle /\ leaf = Idle /\ pst = Idle /\ pc = Idle /\ fgen = Idle
    /\ mgen = Idle /\ msg = Idle /\ dir = Idle /\ blk = Idle /\ tc = Idle /\ att = Idle /\ life = Idle
    /\ pstream = Idle
    /\ dec = Idle

NextPerm ==
    \/ BlockDecrypt
    \/ ReEncode

SpecPerm == InitPerm /\ [][NextPerm]_vars

\* C19: the substitution used to decode NDB_CRYPT_PERMUTE data is a bijection
\* on the bytes 0..255, and a data block that is decoded and then sent through
\* the inverse substitution is the original data block.
C19_PermuteTableIsBijection ==
    /\ Len(mpbbCryptFrom512) = 256
    /\ {decrypt_table(b) : b \in 0..255} = 0..255
    /\ perm.pc \in {"decoded", "reencoded"} => Len(perm.data_block) = Len(perm.payload)
    /\ perm.pc = "reencoded" => perm.encoded = perm.payload

\* a block of two bytes that the decoding changes, decoded and encoded again
C19_Witness ==
    /\ perm.pc = "reencoded"
    /\ perm.payload = <<0, 255>>
    /\ perm.data_block = <<71, 236>>
    /\ perm.encoded = <<0, 255>>

\* ---------------------------------------------------------------------------
\* the order of the payloads of fetch_all_block_data

\* what fetch_block gives for a BID in the state's BBT and file
BlkFetch(bid) == FetchBlock(blk.bbt_entries, blk.file, bid)

BlkIs(bid, block_type) ==
    BlkFetch(bid).err = "none" /\ BlkFetch(bid).block.block_type = block_type

\* the payloads of the data blocks that an XBLOCK lists, in the order of its list
XBlockPayloads(bid) ==
    LET rgbid == BlkFetch(bid).block.rgbid
    IN [i \in 1..Len(rgbid) |-> BlkFetch(rgbid[i]).block.data_block]

RECURSIVE XXBlockPayloads(_)
XXBlockPayloads(rgbid) ==
    IF rgbid = <<>> THEN <<>>
    ELSE XBlockPayloads(rgbid[1]) \o XXBlockPayloads(Tail(rgbid))

BlkRequested == blk.fetched[1].bid

BlkListsOtherThan(bid, block_type) ==
    \E i \in 1..Len(BlkFetch(bid).block.rgbid) :
        LET r == BlkFetch(BlkFetch(bid).block.rgbid[i])
        IN r.err = "none" /\ r.block.block_type # block_type

\* C21: fetch_all_block_data returns the one payload of a data block, the
\* payloads of the blocks an XBLOCK lists in list order, and for an XXBLOCK
\* the payloads of each listed XBLOCK in list order; it raises the domain
\* error when an XBLOCK lists a block that is not a data block, when an
\* XXBLOCK lists a block that is not an XBLOCK, and when the BID asked for
\* names an SLBLOCK or an SIBLOCK.
C21_PayloadsInListOrder ==
    /\ blk.pc = "done" =>
          /\ BlkIs(BlkRequested, btypeData) =>
                blk.data_list = <<BlkFetch(BlkRequested).block.data_block>>
          /\ BlkIs(BlkRequested, btypeXBLOCK) =>
                blk.data_list = XBlockPayloads(BlkRequested)
          /\ BlkIs(BlkRequested, btypeXXBLOCK) =>
                blk.data_list = XXBlockPayloads(BlkFetch(BlkRequested).block.rgbid)
    /\ /\ blk.pc \in {"done", "raised"}
       /\ \/ BlkIs(BlkRequested, btypeXBLOCK) /\ BlkListsOtherThan(BlkRequested, btypeData)
          \/ BlkIs(BlkRequested, btypeXXBLOCK) /\ BlkListsOtherThan(BlkRequested, btypeXBLOCK)
          \/ BlkIs(BlkRequested, btypeSLBLOCK)
          \/ BlkIs(BlkRequested, btypeSIBLOCK)
       => blk.pc = "raised" /\ blk.err = "PANHuntException"

\* an XXBLOCK that lists the same XBLOCK twice was read to its end: the two
\* payloads of the XBLOCK come twice, in the order of its list
C21_Witness ==
    /\ blk.pc = "done"
    /\ BlkIs(BlkRequested, btypeXXBLOCK)
    /\ BlkFetch(BlkRequested).block.rgbid = <<10, 10>>
    /\ blk.data_list = <<"d0", "d2", "d0", "d2">>

\* ---------------------------------------------------------------------------
\* the three cases of the resolution of dwValueHnid

PCRecordHnid(p, i) == Slice(p.bth_data_list[i].data, 2, 6)

PCRecordPType(p, i) == ptypes(PTypeEnum(PCRecordType(p, i)))

PCInline(t) == ~t.is_variable /\ ~t.is_multi /\ t.byte_count <= 4

PCWide(t) == ~t.is_variable /\ ~t.is_multi /\ t.byte_count > 4

\* the four bytes name a heap allocation: a wide fixed type, or a variable
\* or multi type whose four bytes have NID type 0
PCByHid(t, hnid) ==
    \/ PCWide(t)
    \/ (t.is_variable \/ t.is_multi) /\ unpack_integer(hnid) % 32 = 0

PCBySubnode(t, hnid) ==
    (t.is_variable \/ t.is_multi) /\ unpack_integer(hnid) % 32 # 0

PCHasAllocation(hn, hnid) ==
    /\ unpack_integer(Slice(hnid, 2, 4)) = 0
    /\ (unpack_integer(Slice(hnid, 0, 2)) \div 32) \in 1..Len(hn.heap)

PCHasSubnode(hn, hnid) ==
    hn.subnodes # EmptyDict /\ unpack_integer(hnid) \in DOMAIN hn.subnodes

\* the bytes that the three cases name as the value
PCValueBytes(hn, t, hnid) ==
    IF PCInline(t) THEN Slice(hnid, 0, t.byte_count)
    ELSE IF PCByHid(t, hnid) THEN hn.heap[unpack_integer(Slice(hnid, 0, 2)) \div 32]
    ELSE Concat(hn.block_data[hn.subnodes[unpack_integer(hnid)].bidData])

\* the bytes of the case are there to be read
PCResolvable(hn, t, hnid) ==
    \/ PCInline(t)
    \/ PCByHid(t, hnid) /\ PCHasAllocation(hn, hnid)
    \/ /\ PCBySubnode(t, hnid) /\ PCHasSubnode(hn, hnid)
       /\ hn.subnodes[unpack_integer(hnid)].bidData \in DOMAIN hn.block_data

\* what the record read last has become: its error, or the value of its entry
PCLastOutcome ==
    IF pc.pc = "raised" THEN Raised(pc.err)
    ELSE Returned(pc.properties[PCRecordId(pc, pc.index)].value)

PCDecoded(id, t, payload) ==
    LET v == PstPTypeWrapperValue(t, payload)
    IN IF v.err # "none" \/ id \notin EntryIdProps THEN v
       ELSE EntryID(as_binary(v.value))

\* C22: the value of a PC record is decoded from the first byte_count bytes
\* of dwValueHnid for a fixed non-multi type of at most 4 bytes, whatever the
\* heap holds; from the heap allocation that the 4 bytes name as an HID for a
\* fixed non-multi type of more than 4 bytes and for a variable or multi type
\* whose 4 bytes have NID type 0; and otherwise from the concatenated block
\* data of bidData of the sub-node that the 4 bytes name as a NID, a NID that
\* the heap node's sub-nodes do not hold raising the domain error.
C22_ValueHnidResolution ==
    pc.pc \in {"loop", "done", "raised"} /\ pc.index >= 1 =>
        LET t == PCRecordPType(pc, pc.index)
            hnid == PCRecordHnid(pc, pc.index)
            id == PCRecordId(pc, pc.index)
        IN /\ PCResolvable(pc.hn, t, hnid) =>
                 PCLastOutcome = PCDecoded(id, t, PCValueBytes(pc.hn, t, hnid))
           /\ PCBySubnode(t, hnid) /\ ~PCHasSubnode(pc.hn, hnid) =>
                 pc.pc = "raised" /\ pc.err = "PANHuntException"

\* the record read last is of a variable type and names sub-node 63, and its
\* entry holds the data of the two blocks of the sub-node's data tree
C22_Witness ==
    /\ pc.pc = "done" /\ pc.index = 1
    /\ PCRecordType(pc, 1) = 31
    /\ PCRecordHnid(pc, 1) = <<63, 0, 0, 0>>
    /\ PCRecordId(pc, 1) \in DOMAIN pc.properties
    /\ pc.properties[PCRecordId(pc, 1)].value = StrValue(<<66, 0, 67, 0>>)

\* ---------------------------------------------------------------------------
\* one SLBLOCK against the same entries split below an SIBLOCK

SubSIBids(blocks) == [i \in 1..Len(blocks[BidSI].rgentries) |-> blocks[BidSI].rgentries[i].bid]

\* every entry of the SIBLOCK names an SLBLOCK
SubSplit(blocks) ==
    \A i \in 1..Len(SubSIBids(blocks)) :
        /\ SubSIBids(blocks)[i] \in DOMAIN blocks
        /\ blocks[SubSIBids(blocks)[i]].block_type = btypeSLBLOCK

\* the entries of the SLBLOCKs in the order of the given BIDs
RECURSIVE SubEntriesOf(_, _)
SubEntriesOf(blocks, bids) ==
    IF bids = <<>> THEN <<>>
    ELSE blocks[bids[1]].rgentries \o SubEntriesOf(blocks, Tail(bids))

SubDistinctNids(rgentries) ==
    \A i, j \in 1..Len(rgentries) : i # j => rgentries[i].nid # rgentries[j].nid

\* the layout that holds the entries in one SLBLOCK, and nothing else
SubOneBlock(rgentries) ==
    BidSLA :> [block_type |-> btypeSLBLOCK, rgentries |-> rgentries]

SubBidData(subnodes) == [nid \in DOMAIN subnodes |-> subnodes[nid].bidData]

\* C23: when the SLBLOCKs that an SIBLOCK names hold entries of pairwise
\* different NIDs, fetch_subnodes on the SIBLOCK returns the same map from
\* NID to bidData as fetch_subnodes on one SLBLOCK that holds these entries,
\* in the order of the SIBLOCK's entries and in the reverse order.
C23_SplitGivesSameSubnodes ==
    /\ sub.pc # "call" /\ sub.bid = BidSI
    /\ SubSplit(sub.blocks)
    /\ SubDistinctNids(SubEntriesOf(sub.blocks, SubSIBids(sub.blocks)))
    => LET rgentries == SubEntriesOf(sub.blocks, SubSIBids(sub.blocks))
           one == fetch_subnodes(SubOneBlock(rgentries), BidSLA)
           reversed == fetch_subnodes(SubOneBlock(Reverse(rgentries)), BidSLA)
       IN /\ sub.pc = "returned"
          /\ one.err = "none" /\ reversed.err = "none"
          /\ SubBidData(sub.subnodes) = SubBidData(one.value)
          /\ SubBidData(sub.subnodes) = SubBidData(reversed.value)

\* the SIBLOCK names the second SLBLOCK before the first, each holds one
\* entry, and the call has returned both
C23_Witness ==
    /\ sub.pc = "returned" /\ sub.bid = BidSI
    /\ SubSIBids(sub.blocks) = <<BidSLB, BidSLA>>
    /\ Len(sub.blocks[BidSLA].rgentries) = 1
    /\ Len(sub.blocks[BidSLB].rgentries) = 1
    /\ DOMAIN sub.subnodes = {1, 2}
    /\ SubBidData(sub.subnodes) = (1 :> 8 * (BidSLA + 1)) @@ (2 :> 8 * (BidSLB + 1))

\* ---------------------------------------------------------------------------
\* the order and the paths of folder_generator when no folder fails

\* the generator is resumed until it ends
SpecFGenLive == SpecFGen /\ WF_vars(NextFGen)

FGenNoFailure == \A f \in 1..NFolders : fgen.fail[f] = "none"

FGenNumber(i) == fgen.yielded[i].nid \div 32

\* the position at which folder f was yielded, 0 if it was not
FGenPosition(f) ==
    IF \E i \in 1..Len(fgen.yielded) : FGenNumber(i) = f
    THEN CHOOSE i \in 1..Len(fgen.yielded) : FGenNumber(i) = f
    ELSE 0

FGenTreeOrder ==
    /\ Len(fgen.yielded) >= 1 =>
          FGenNumber(1) = 1 /\ fgen.yielded[1].path = <<1>>
    /\ \A i, j \in 1..Len(fgen.yielded) : i # j => FGenNumber(i) # FGenNumber(j)
    /\ \A i \in 2..Len(fgen.yielded) :
          LET p == FGenPosition(fgen.parent[FGenNumber(i)])
          IN /\ 1 <= p /\ p < i
             /\ fgen.yielded[i].path = fgen.yielded[p].path \o <<FGenNumber(i)>>
    /\ fgen.pc = "done" => {FGenNumber(i) : i \in 1..Len(fgen.yielded)} = 1..NFolders
    /\ fgen.pc # "raised"

\* C24: when no folder fails to decode, folder_generator yields the root
\* first, then every other folder of the tree exactly once and after its
\* parent, each with the path of its parent followed by its own DisplayName
\* (the root with its DisplayName alone), and the generator ends.
C24_FoldersInTreeOrder ==
    /\ [](FGenNoFailure => FGenTreeOrder)
    /\ (FGenNoFailure ~> fgen.pc = "done")

\* a chain of three folders was yielded to its end without a failure
C24_Witness ==
    /\ fgen.pc = "done" /\ FGenNoFailure
    /\ Len(fgen.yielded) = NFolders
    /\ \E i \in 1..Len(fgen.yielded) : Len(fgen.yielded[i].path) = 3

-----------------------------------------------------------------------------
(* PropertyStream.__init__, PropertyEntry.__init__ and                     *)
(* MsgPTypeWrapper.get_value, msmsg.py 390-412, 436-483, 501-583           *)

MaxPropRecords == 2

SUB_PREFIX == "__substg1.0_"

\* MSMSG.ptype_mapping: the table of msmsg.py 836-869 has the rows of LTP.ptypes
ptype_mapping(ptype) == ptypes(ptype)

\* payload.decode('utf-16-le'), and with errors='ignore' for a payload of
\* odd length: the text of the whole 2-byte units
decode_utf16(payload) == StrValue(Slice(payload, 0, 2 * (Len(payload) \div 2)))

\* MsgPTypeWrapper.get_value for the types of the model
MsgPTypeWrapperGetValue(ptype, payload) ==
    IF ptype.ptype = "PtypInteger32"
    THEN (IF Len(payload) = 4 THEN Returned(IntValue(unpack_signed(payload)))
          ELSE Raised("struct.error"))
    ELSE IF ptype.ptype = "PtypString" THEN Returned(decode_utf16(payload))
    ELSE IF ptype.ptype = "PtypString8"
    THEN (IF payload # <<>> /\ payload[Len(payload)] = 0
          THEN Returned(BytesValue(Slice(payload, 0, Len(payload) - 1)))
          ELSE Returned(BytesValue(payload)))
    ELSE IF ptype.ptype = "PtypBinary" THEN Returned(BytesValue(payload))
    ELSE IF ptype.ptype = "PtypMultipleInteger16" THEN Returned(unpack_list_int(payload, 16))
    ELSE IF ptype.ptype = "PtypMultipleInteger32" THEN Returned(unpack_list_int(payload, 32))
    \* the list that unpack_list_int builds is not returned (msmsg.py 563-564),
    \* no later test holds and the method ends with its raise (583)
    ELSE IF ptype.ptype = "PtypMultipleInteger64" THEN Raised("PANHuntException")
    ELSE IF ptype.ptype = "PtypNull" THEN Returned(NoneValue)
    ELSE Returned(BytesValue(payload))

\* the name of the stream that holds the value of a property tag
PropStreamName(PropertyTag) ==
    [prefix |-> SUB_PREFIX, number |-> to_zeropaddedhex(PropertyTag, 8)]

\* PropertyEntry.__init__ on the 16 bytes of a record; oid tells the objects
\* apart.  No type of the model is both variable and multi.
PropertyEntry(children, property_entry_bytes, oid) ==
    LET PropertyTag == unpack_integer(Slice(property_entry_bytes, 0, 4))
        Flags == unpack_integer(Slice(property_entry_bytes, 4, 8))
        PropertyID == PropertyTag \div 65536
        PropertyType == PropertyTag % 65536
        ptype == ptype_mapping(PTypeEnum(PropertyType))
        built(size, v) ==
            IF v.err # "none" THEN v
            ELSE Returned([oid |-> oid, PropertyTag |-> PropertyTag, Flags |-> Flags,
                           PropertyID |-> PropertyID, PropertyType |-> PropertyType,
                           size |-> size, value |-> v.value])
    IN IF ptype.is_variable \/ ptype.is_multi
       THEN LET size == unpack_integer(Slice(property_entry_bytes, 8, 12))
                stream_name == PropStreamName(PropertyTag)
            IN IF stream_name \notin DOMAIN children THEN Raised("KeyError")
               ELSE LET property_bytes == children[stream_name]
                    IN IF /\ Len(property_bytes) # size
                          /\ \/ /\ ptype.ptype = "PtypString"
                                /\ Len(property_bytes) + 2 # size
                             \/ /\ ptype.ptype = "PtypString8"
                                /\ Len(property_bytes) + 1 # size
                       THEN Raised("PANHuntException")
                       ELSE built(size, MsgPTypeWrapperGetValue(ptype, property_bytes))
       ELSE built(ptype.byte_count,
                  MsgPTypeWrapperGetValue(ptype,
                      Slice(property_entry_bytes, 8, 8 + ptype.byte_count)))

\* 'prop_entry in self.properties.values()': PropertyEntry defines no __eq__,
\* so the entries are compared as objects
PropertyEntryIn(prop_entry, properties) ==
    \E id \in DOMAIN properties : properties[id].oid = prop_entry.oid

\* the property ids, types and sizes of the model's records: DisplayName and
\* SubjectPrefix; Integer32, String8, String and Binary
PropIds == {12289, 61}
PropTypes == {3, 30, 31, 258}
PropSizes == {3, 4}

\* what the streams of the model hold: 2, 3 or 4 bytes
PropStreamDatas == {<<65, 0>>, <<65, 0, 66>>, <<65, 0, 66, 0>>}

\* the 16 bytes of a record: tag, flags, and the size or the value
PropRecord(id, type, size) ==
    pack_integer(id * 65536 + type, 4) \o pack_integer(6, 4)
        \o pack_integer(size, 4) \o pack_integer(0, 4)

PropRecords == {PropRecord(id, type, size) : id \in PropIds, type \in PropTypes, size \in PropSizes}

\* the streams next to the property stream: one for each record, under the
\* name of its tag
RECURSIVE PropChildren(_, _)
PropChildren(recs, datas) ==
    IF recs = <<>> THEN EmptyDict
    ELSE DictSet(PropChildren(SubSeq(recs, 1, Len(recs) - 1), SubSeq(datas, 1, Len(datas) - 1)),
                 PropStreamName(unpack_integer(Slice(recs[Len(recs)], 0, 4))),
                 datas[Len(datas)])

(* The storages of the model: a property stream with a header of 8 or 32   *)
(* bytes, up to MaxPropRecords records and, in some, one byte after them;  *)
(* next to it one stream for the tag of every record.                      *)
InitPropsComp ==
    \E header_size \in {8, 32}, n \in 0..MaxPropRecords, extra \in {<<>>, <<0>>} :
      \E recs \in [1..n -> PropRecords], datas \in [1..n -> PropStreamDatas] :
        pstream = [pc |-> "start", header_size |-> header_size,
                 property_bytes |-> (IF n = 0 /\ extra = <<>> THEN <<>>
                                     ELSE [i \in 1..header_size |-> 0] \o Concat(recs) \o extra),
                 children |-> PropChildren(recs, datas),
                 index |-> 0, count |-> 0, properties |-> EmptyDict, err |-> "none"]

\* PropertyStream.__init__ up to the loop (msmsg.py 390-405)
PropertyStreamInit ==
    /\ pstream.pc = "start"
    /\ IF pstream.property_bytes = <<>>
       THEN pstream' = [pstream EXCEPT !.pc = "done"]
       ELSE IF (Len(pstream.property_bytes) - pstream.header_size) % 16 # 0
       THEN pstream' = [pstream EXCEPT !.pc = "raised", !.err = "PANHuntException"]
       ELSE pstream' = [pstream EXCEPT
                         !.pc = "loop",
                         !.count = (Len(pstream.property_bytes) - pstream.header_size) \div 16]
    /\ UNCHANGED <<bth, fat, sub, leaf, pst, pc, fgen, mgen, msg, dir, blk, tc, att, life, perm, dec>>

\* one turn of the loop over the records, or its end (msmsg.py 406-412)
PropertyStreamLoop ==
    /\ pstream.pc = "loop"
    /\ IF pstream.index = pstream.count
       THEN pstream' = [pstream EXCEPT !.pc = "done"]
       ELSE LET i == pstream.index
                prop_entry == PropertyEntry(pstream.children,
                                  Slice(pstream.property_bytes, pstream.header_size + i * 16,
                                        pstream.header_size + i * 16 + 16), i + 1)
            IN IF prop_entry.err # "none"
               THEN pstream' = [pstream EXCEPT !.pc = "raised", !.err = prop_entry.err,
                                           !.index = @ + 1]
               ELSE IF PropertyEntryIn(prop_entry.value, pstream.properties)
               THEN pstream' = [pstream EXCEPT !.pc = "raised", !.err = "PANHuntException",
                                           !.index = @ + 1]
               ELSE pstream' = [pstream EXCEPT
                                 !.properties = DictSet(@, prop_entry.value.PropertyID,
                                                        prop_entry.value),
                                 !.index = @ + 1]
    /\ UNCHANGED <<bth, fat, sub, leaf, pst, pc, fgen, mgen, msg, dir, blk, tc, att, life, perm, dec>>

InitProps ==
    /\ InitPropsComp
    /\ bth = Idle /\ fat = Idle /\ sub = Idle /\ leaf = Idle /\ pst = Idle /\ pc = Idle /\ fgen = Idle
    /\ mgen = Idle /\ msg = Idle /\ dir = Idle /\ blk = Idle /\ tc = Idle /\ att = Idle /\ life = Idle /\ perm = Idle
    /\ dec = Idle

NextProps == PropertyStreamInit \/ PropertyStreamLoop

SpecProps == InitProps /\ [][NextProps]_vars

\* record i of the property stream, its tag, type, declared size and stream
PropBytes(i) ==
    Slice(pstream.property_bytes, pstream.header_size + (i - 1) * 16,
          pstream.header_size + i * 16)
PropTag(i) == unpack_integer(Slice(PropBytes(i), 0, 4))
PropPType(i) == ptype_mapping(PTypeEnum(PropTag(i) % 65536))
PropSize(i) == unpack_integer(Slice(PropBytes(i), 8, 12))
PropStreamLen(i) == Len(pstream.children[PropStreamName(PropTag(i))])

\* the declared size differs from the length of the stream by more than the
\* terminator of a string
PropSizeMismatch(i) ==
    /\ PropPType(i).is_variable \/ PropPType(i).is_multi
    /\ PropSize(i) # PropStreamLen(i)
    /\ ~(PropPType(i).ptype = "PtypString" /\ PropSize(i) = PropStreamLen(i) + 2)
    /\ ~(PropPType(i).ptype = "PtypString8" /\ PropSize(i) = PropStreamLen(i) + 1)

\* C25: a record of a variable-length or multi-valued type whose declared
\* size differs from the length of its stream '__substg1.0_<tag>' ends the
\* construction with the size-mismatch domain error, whatever the type
\* (Binary included); only a string's terminator, 2 bytes for PtypString and
\* 1 byte for PtypString8, may make the difference.
C25_SizeMismatchIsFatal ==
    \A i \in 1..pstream.index :
        PropSizeMismatch(i) =>
            /\ pstream.pc = "raised" /\ pstream.err = "PANHuntException"
            /\ i = pstream.index

\* C26: a property stream with two records of the same PropertyID raises the
\* domain error: no constructed PropertyStream holds the entry of a later
\* record in the place of an earlier record of the same PropertyID.
C26_DuplicatePropertyIdIsFatal ==
    pstream.pc = "done" =>
        \A i, j \in 1..pstream.count :
            i # j => PropTag(i) \div 65536 # PropTag(j) \div 65536

\* ---------------------------------------------------------------------------
\* the end of get_stream

\* the call is carried on until it returns or raises
SpecFATLive == SpecFAT /\ WF_vars(NextFAT)

\* C28: whatever the table holds and wherever the chain starts, get_stream
\* of the FAT and of the MiniFAT ends after finitely many steps, with bytes
\* or with an error, also when the chain comes back to a sector it has
\* visited before it reaches ENDOFCHAIN.  (A call that has appended MaxChain
\* sectors has left the streams of the model and counts as ended.)
C28_GetStreamTerminates ==
    <>(fat.pc \in {"returned", "raised"} \/ Len(fat.stream_sectors) = MaxChain)

-----------------------------------------------------------------------------
(* PstPTypeWrapper.value and MsgPTypeWrapper.get_value on the payloads of  *)
(* the multiple-integer types, pst.py 917-931, 971-978, msmsg.py 550-564,  *)
(* 585-591                                                                 *)

MaxInts == 2

\* the integers of the model's payloads; each fits 16 bits
IntSamples == {1, -1, -2, 258}

\* the n bytes of a signed integer, least significant first
pack_signed(v, n) ==
    IF v >= 0 THEN pack_integer(v, n)
    ELSE [i \in 1..n |-> 255 - pack_integer(-v - 1, n)[i]]

MultiIntType(bit_size) ==
    IF bit_size = 16 THEN "PtypMultipleInteger16"
    ELSE IF bit_size = 32 THEN "PtypMultipleInteger32"
    ELSE "PtypMultipleInteger64"

(* The calls of the model: a decoder, a multiple-integer type and a payload *)
(* that holds up to MaxInts integers of the type's width.                   *)
InitDecComp ==
    \E decoder \in {"pst", "msg"}, bit_size \in {16, 32, 64}, n \in 0..MaxInts :
      \E ints \in [1..n -> IntSamples] :
        dec = [pc |-> "call", decoder |-> decoder, bit_size |-> bit_size, ints |-> ints,
               payload |-> Concat([i \in 1..n |-> pack_signed(ints[i], bit_size \div 8)]),
               value |-> NoneValue, err |-> "none"]

\* ptype.value(payload) of the PST decoder, ptype.get_value(payload) of the
\* CFB decoder
PTypeWrapperValue ==
    /\ dec.pc = "call"
    /\ LET r == IF dec.decoder = "pst"
                THEN PstPTypeWrapperValue(ptypes(MultiIntType(dec.bit_size)), dec.payload)
                ELSE MsgPTypeWrapperGetValue(ptype_mapping(MultiIntType(dec.bit_size)),
                                             dec.payload)
       IN IF r.err # "none"
          THEN dec' = [dec EXCEPT !.pc = "raised", !.err = r.err]
          ELSE dec' = [dec EXCEPT !.pc = "returned", !.value = r.value]
    /\ UNCHANGED <<bth, fat, sub, leaf, pst, pc, fgen, mgen, msg, dir, blk, tc, att, life, perm, pstream>>

InitDec ==
    /\ InitDecComp
    /\ bth = Idle /\ fat = Idle /\ sub = Idle /\ leaf = Idle /\ pst = Idle /\ pc = Idle /\ fgen = Idle
    /\ mgen = Idle /\ msg = Idle /\ dir = Idle /\ blk = Idle /\ tc = Idle /\ att = Idle /\ life = Idle /\ perm = Idle /\ pstream = Idle

NextDec == PTypeWrapperValue

SpecDec == InitDec /\ [][NextDec]_vars

\* the decoder has given the integers of the payload, in their order
DecGivesIntegers ==
    dec.pc # "call" => dec.pc = "returned" /\ dec.value = ListValue(dec.ints)

\* C27: a PtypMultipleInteger64 payload of 8 * n bytes decodes to the
\* sequence of its n signed 64-bit little-endian integers, in the PST
\* decoder and in the CFB decoder, as the payloads of PtypMultipleInteger16
\* and PtypMultipleInteger32 decode to the sequences of their 2-byte and
\* 4-byte integers; the result is neither None nor an error.
C27_MultipleInteger64Decodes ==
    /\ DecGivesIntegers
    /\ dec.pc = "returned" => dec.value # NoneValue
    /\ dec.pc # "raised"

\* the narrower types alone
DecNarrowGivesIntegers == dec.bit_size \in {16, 32} => DecGivesIntegers

\* ---------------------------------------------------------------------------
\* the end of fetch_all_block_data

\* the call is carried on until it returns or raises
SpecBlkLive == SpecBlk /\ WF_vars(NextBlk)

\* the calls of fetch_all_block_data that are nested in the first one: each
\* is made from the loop of an XXBLOCK, whose frame stays below it
BlkNestedCalls == Cardinality({i \in 1..Len(blk.stack) : blk.stack[i].op = "xx"})

\* C29: fetch_all_block_data ends for every BBT, file and BID, also when a
\* block lists its own BID or two blocks list each other; a nested call is
\* made only from the loop of an XXBLOCK, on a block found to be an XBLOCK,
\* and makes no call itself, so no more than one call is nested.
C29_FetchAllBlockDataTerminates ==
    /\ [](BlkNestedCalls <= 1 /\ Len(blk.stack) <= 2)
    /\ <>(blk.pc \in {"done", "raised"})

\* an XXBLOCK lists an XBLOCK that lists the XXBLOCK: the nested call on the
\* XBLOCK has ended with the domain error
C29_Witness ==
    /\ blk.pc = "raised"
    /\ Len(blk.fetched) = 4
    /\ blk.fetched[1].bid = 6 /\ blk.fetched[1].block # NoBlock
    /\ blk.fetched[1].block.block_type = btypeXXBLOCK
    /\ blk.fetched[3].bid = 10 /\ blk.fetched[3].block # NoBlock
    /\ blk.fetched[3].block.block_type = btypeXBLOCK
    /\ blk.fetched[4].bid = 6

\* ---------------------------------------------------------------------------
\* what folder_generator does to the folders it has yielded

\* C30: no step of folder_generator changes a Folder object that it has
\* yielded before; the subfolders list of the root folder yielded first
\* keeps the SubFolder entries it had when the root was yielded.
C30_YieldedFoldersUnchanged ==
    [][\A i \in 1..Len(fgen.yielded) : fgen.yielded'[i] = fgen.yielded[i]]_vars

====
